---- MODULE Spec2Model ----
(***************************************************************************)
(* A model of the mutable BSON document of                                 *)
(* src/mongo/bson/mutable/document.cpp: the elements vector of             *)
(* ElementReps, the objects vector (the leaf builder's object at index 0,  *)
(* the input object at index 1), the field name heap, the damage vector,   *)
(* and the operations of Element and Document on them.  Buffers are        *)
(* sequences of bytes; an offset o of the code is position o + 1 here.     *)
(***************************************************************************)
EXTENDS Integers, Sequences, FiniteSets, TLC

VARIABLES
    elements,    \* Document::Impl::_elements, elements[i + 1] is the rep of RepIdx i
    input,       \* the bytes of _objects[1], the BSONObj given to the constructor
    hasInput,    \* FALSE for Document(), which has no _objects[1]
    leafBuf,     \* the elements appended to _leafBuilder (without its header)
    fieldNames,  \* Document::Impl::_fieldNames
    damages,     \* *_damages, the damage events recorded and not yet handed over
    inPlace,     \* _damages is not null
    flags,       \* the dasserts and verifies of the code that have failed so far
    noHandle,    \* the RepIdxs no Element handle was ever returned for
    delivered,   \* history: the damage events handed over by getInPlaceUpdates
    calls,       \* the number of calls made so far that make an element or edit the document
    mode,        \* the InPlaceMode given to the constructor: TRUE for kInPlaceEnabled
    ref,         \* reference document: the logical nodes, an ordered tree of named values
    href         \* reference document: the logical node each RepIdx designates

vars == <<elements, input, hasInput, leafBuf, fieldNames, damages, inPlace, flags,
          noHandle, delivered, calls, mode, ref, href>>

(***************************************************************************)
(* Bounds of the model.                                                    *)
(***************************************************************************)
MaxCalls == 2    \* the calls that make an element or edit the document, per run

(***************************************************************************)
(* Constants of the code.                                                  *)
(***************************************************************************)
kRootRepIdx == 0
kInvalidRepIdx == -1
kOpaqueRepIdx == -2
kLeafObjIdx == 0
kInvalidObjIdx == -1
kInputObjIdx == 1

(***************************************************************************)
(* The wire format.                                                        *)
(***************************************************************************)
BSONType ==
    [EOO |-> 0, NumberDouble |-> 1, Object |-> 3, Array |-> 4, Bool |-> 8,
     Date |-> 9, NumberInt |-> 16, NumberLong |-> 18]

IsContainerType(t) == t \in {BSONType.Object, BSONType.Array}

Int32(n) == <<n % 256, (n \div 256) % 256, 0, 0>>

ReadInt32(buf, off) == buf[off + 1] + 256 * buf[off + 2]

Zeros(n) == [k \in 1..n |-> 0]

\* The payload of a fixed size value: the number, little endian, in 'width' bytes.
Payload(width, v) == <<v>> \o Zeros(width - 1)

FixedSize(t) ==
    CASE t = BSONType.NumberDouble -> 8
      [] t = BSONType.Bool -> 1
      [] t = BSONType.Date -> 8
      [] t = BSONType.NumberInt -> 4
      [] t = BSONType.NumberLong -> 8
      [] OTHER -> 0

RECURSIVE CStrLen(_, _)
CStrLen(buf, off) ==
    IF off + 1 > Len(buf) \/ buf[off + 1] = 0 THEN 0 ELSE 1 + CStrLen(buf, off + 1)

\* A BSONElement is a buffer and the offset of its type byte.
EltType(buf, off) == IF off + 1 > Len(buf) THEN BSONType.EOO ELSE buf[off + 1]

EltEoo(buf, off) == EltType(buf, off) = BSONType.EOO

EltFieldNameSize(buf, off) == CStrLen(buf, off + 1) + 1

EltFieldName(buf, off) == SubSeq(buf, off + 2, off + 1 + CStrLen(buf, off + 1))

EltValueOffset(buf, off) == off + 1 + EltFieldNameSize(buf, off)

EltValueSize(buf, off) ==
    IF IsContainerType(EltType(buf, off))
    THEN ReadInt32(buf, EltValueOffset(buf, off))
    ELSE FixedSize(EltType(buf, off))

EltSize(buf, off) == 1 + EltFieldNameSize(buf, off) + EltValueSize(buf, off)

EltValue(buf, off) ==
    SubSeq(buf, EltValueOffset(buf, off) + 1, EltValueOffset(buf, off) + EltValueSize(buf, off))

EltBytes(buf, off) == SubSeq(buf, off + 1, off + EltSize(buf, off))

\* A value tree: [name, type, val, kids], val the payload of a leaf, kids the
\* elements of a container.
Leaf(name, type, v) == [name |-> name, type |-> type, val |-> Payload(FixedSize(type), v), kids |-> <<>>]

Container(name, type, kids) == [name |-> name, type |-> type, val |-> <<>>, kids |-> kids]

RECURSIVE EncodeElts(_)
EncodeObj(kids) ==
    LET body == EncodeElts(kids) IN Int32(4 + Len(body) + 1) \o body \o <<0>>

EncodeElt(e) ==
    <<e.type>> \o e.name \o <<0>> \o (IF IsContainerType(e.type) THEN EncodeObj(e.kids) ELSE e.val)

EncodeElts(kids) ==
    IF kids = <<>> THEN <<>> ELSE EncodeElt(Head(kids)) \o EncodeElts(Tail(kids))

\* The object of a builder that has appended 'body': asTempObj / done write the
\* size in front of it and the EOO behind it.
BuilderObj(body) == Int32(4 + Len(body) + 1) \o body \o <<0>>

(***************************************************************************)
(* Document::Impl.  The operators below take and return the mutable state  *)
(* of the Impl as a record st = [elements, leafBuf, fieldNames, damages,   *)
(* inPlace, flags, href].  A dassert of the code that fails is recorded in *)
(* st.flags and the operation goes on as the release build does.  st.href  *)
(* is not state of the code: it names, for the reference document, the     *)
(* logical node each rep designates.                                       *)
(***************************************************************************)
NoNode == 0

\* The reference document: the children of a node, the node that has 'n' among
\* its children, and the children next to 'n'.
kidsOf(n) == IF n = NoNode THEN <<>> ELSE ref[n].kids

firstKid(n) == IF kidsOf(n) = <<>> THEN NoNode ELSE Head(kidsOf(n))

parentOf(n) ==
    IF \E p \in 1..Len(ref) : \E k \in 1..Len(ref[p].kids) : ref[p].kids[k] = n
    THEN CHOOSE p \in 1..Len(ref) : \E k \in 1..Len(ref[p].kids) : ref[p].kids[k] = n
    ELSE NoNode

nextKid(n) ==
    LET kids == kidsOf(parentOf(n)) IN
    IF n # NoNode /\ \E k \in 1..(Len(kids) - 1) : kids[k] = n
    THEN kids[(CHOOSE k \in 1..(Len(kids) - 1) : kids[k] = n) + 1]
    ELSE NoNode

designate(st, id, n) == [st EXCEPT !.href[id + 1] = n]

makeRep ==
    [objIdx |-> kInvalidObjIdx, serialized |-> FALSE, array |-> FALSE, offset |-> 0,
     sibling |-> [left |-> kInvalidRepIdx, right |-> kInvalidRepIdx],
     child |-> [left |-> kInvalidRepIdx, right |-> kInvalidRepIdx],
     parent |-> kInvalidRepIdx]

\* canAttach that accepts the root as well.
canAttachRootToo(id, rep) ==
    /\ rep.sibling.left = kInvalidRepIdx
    /\ rep.sibling.right = kInvalidRepIdx
    /\ rep.parent = kInvalidRepIdx

canAttach(id, rep) ==
    /\ id # kRootRepIdx
    /\ rep.sibling.left = kInvalidRepIdx
    /\ rep.sibling.right = kInvalidRepIdx
    /\ rep.parent = kInvalidRepIdx

\* getAttachmentError that looks at the parent first.
getAttachmentErrorParentFirst(rep) ==
    IF rep.parent # kInvalidRepIdx THEN "dangling parent"
    ELSE IF rep.sibling.left # kInvalidRepIdx THEN "dangling left sibling"
    ELSE IF rep.sibling.right # kInvalidRepIdx THEN "dangling right sibling"
    ELSE "cannot add the root as a child"

getAttachmentError(rep) ==
    IF rep.sibling.left # kInvalidRepIdx THEN "dangling left sibling"
    ELSE IF rep.sibling.right # kInvalidRepIdx THEN "dangling right sibling"
    ELSE IF rep.parent # kInvalidRepIdx THEN "dangling parent"
    ELSE "cannot add the root as a child"

Flag(st, cond, name) == IF cond THEN st ELSE [st EXCEPT !.flags = @ \cup {name}]

getElementRep(st, id) == st.elements[id + 1]

insertElement(st, rep) == [st EXCEPT !.elements = Append(@, rep), !.href = Append(@, NoNode)]

\* The id insertElement returns: the size of the vector before the push_back.
insertedId(st) == Len(st.elements)

getObject(st, objIdx) ==
    IF objIdx = kLeafObjIdx THEN BuilderObj(st.leafBuf)
    ELSE IF objIdx = kInputObjIdx /\ hasInput THEN input
    ELSE BuilderObj(<<>>)

\* The name at an offset of the field name heap.
heapFieldName(st, fieldNameId) ==
    SubSeq(st.fieldNames, fieldNameId + 1, fieldNameId + CStrLen(st.fieldNames, fieldNameId))

\* getFieldName, getType, isLeaf and hasValue of a rep that is not (yet) in the
\* vector, which is never the root.
repFieldName(st, rep) ==
    IF rep.serialized \/ rep.objIdx # kInvalidObjIdx
    THEN EltFieldName(getObject(st, rep.objIdx), rep.offset)
    ELSE heapFieldName(st, rep.offset)

repType(st, rep) ==
    IF rep.serialized \/ rep.objIdx # kInvalidObjIdx
    THEN EltType(getObject(st, rep.objIdx), rep.offset)
    ELSE IF rep.array THEN BSONType.Array ELSE BSONType.Object

getFieldName(st, id) ==
    IF id = kRootRepIdx THEN <<>> ELSE repFieldName(st, getElementRep(st, id))

getType(st, id) ==
    IF id = kRootRepIdx THEN BSONType.Object ELSE repType(st, getElementRep(st, id))

\* isLeaf that takes every element for an object or an array.
isLeafNever(st, id) == FALSE

isLeaf(st, id) == ~IsContainerType(getType(st, id))

hasValue(st, id) ==
    IF id = kRootRepIdx THEN FALSE ELSE getElementRep(st, id).serialized

\* serializedRep that leaves the left sibling of the new rep to be resolved later.
serializedRepOpaqueLeft(st, objIdx, off, parent, left) ==
    LET r == [makeRep EXCEPT !.serialized = TRUE, !.objIdx = objIdx, !.offset = off,
                             !.parent = parent, !.sibling.left = kOpaqueRepIdx,
                             !.sibling.right = kOpaqueRepIdx]
    IN IF IsContainerType(repType(st, r))
       THEN [r EXCEPT !.child.left = kOpaqueRepIdx, !.child.right = kOpaqueRepIdx]
       ELSE r

\* A rep for the element at 'off' of the object 'objIdx', as resolveLeftChild and
\* resolveRightSibling build it.
serializedRep(st, objIdx, off, parent, left) ==
    LET r == [makeRep EXCEPT !.serialized = TRUE, !.objIdx = objIdx, !.offset = off,
                             !.parent = parent, !.sibling.left = left,
                             !.sibling.right = kOpaqueRepIdx]
    IN IF IsContainerType(repType(st, r))
       THEN [r EXCEPT !.child.left = kOpaqueRepIdx, !.child.right = kOpaqueRepIdx]
       ELSE r

\* resolveLeftChild that takes the first child for the last child as well.
resolveLeftChildOnlyChild(st, index) ==
    LET rep == getElementRep(st, index) IN
    IF rep.child.left # kOpaqueRepIdx THEN st
    ELSE
        LET st1 == Flag(st, rep.serialized, "dassert: opaque left child of a non-serialized element")
            buf == getObject(st, rep.objIdx)
            childOff == IF hasValue(st, index) THEN EltValueOffset(buf, rep.offset) + 4 ELSE 4
        IN IF ~EltEoo(buf, childOff)
           THEN designate(
                    [insertElement(st1, serializedRep(st, rep.objIdx, childOff, index,
                                                      kInvalidRepIdx))
                        EXCEPT !.elements[index + 1].child.left = insertedId(st),
                               !.elements[index + 1].child.right = insertedId(st)],
                    insertedId(st), firstKid(st.href[index + 1]))
           ELSE [st1 EXCEPT !.elements[index + 1].child.left = kInvalidRepIdx,
                            !.elements[index + 1].child.right = kInvalidRepIdx]

resolveLeftChild(st, index) ==
    LET rep == getElementRep(st, index) IN
    IF rep.child.left # kOpaqueRepIdx THEN st
    ELSE
        LET st1 == Flag(st, rep.serialized, "dassert: opaque left child of a non-serialized element")
            buf == getObject(st, rep.objIdx)
            childOff == IF hasValue(st, index) THEN EltValueOffset(buf, rep.offset) + 4 ELSE 4
        IN IF ~EltEoo(buf, childOff)
           THEN designate(
                    [insertElement(st1, serializedRep(st, rep.objIdx, childOff, index,
                                                      kInvalidRepIdx))
                        EXCEPT !.elements[index + 1].child.left = insertedId(st)],
                    insertedId(st), firstKid(st.href[index + 1]))
           ELSE [st1 EXCEPT !.elements[index + 1].child.left = kInvalidRepIdx,
                            !.elements[index + 1].child.right = kInvalidRepIdx]

\* resolveRightSibling that leaves the right child of the parent as it is at the
\* end of the list.
resolveRightSiblingOnly(st, index) ==
    LET rep == getElementRep(st, index) IN
    IF rep.sibling.right # kOpaqueRepIdx THEN st
    ELSE
        LET buf == getObject(st, rep.objIdx)
            rightOff == rep.offset + EltSize(buf, rep.offset)
        IN IF ~EltEoo(buf, rightOff)
           THEN designate(
                    [insertElement(st, serializedRep(st, rep.objIdx, rightOff, rep.parent, index))
                        EXCEPT !.elements[index + 1].sibling.right = insertedId(st)],
                    insertedId(st), nextKid(st.href[index + 1]))
           ELSE [st EXCEPT !.elements[index + 1].sibling.right = kInvalidRepIdx]

resolveRightSibling(st, index) ==
    LET rep == getElementRep(st, index) IN
    IF rep.sibling.right # kOpaqueRepIdx THEN st
    ELSE
        LET buf == getObject(st, rep.objIdx)
            rightOff == rep.offset + EltSize(buf, rep.offset)
        IN IF ~EltEoo(buf, rightOff)
           THEN designate(
                    [insertElement(st, serializedRep(st, rep.objIdx, rightOff, rep.parent, index))
                        EXCEPT !.elements[index + 1].sibling.right = insertedId(st)],
                    insertedId(st), nextKid(st.href[index + 1]))
           ELSE IF rep.parent = kInvalidRepIdx
           THEN Flag([st EXCEPT !.elements[index + 1].sibling.right = kInvalidRepIdx],
                     FALSE, "dassert: end of object found by an element without a parent")
           ELSE
               Flag([st EXCEPT !.elements[index + 1].sibling.right = kInvalidRepIdx,
                               !.elements[rep.parent + 1].child.right = index],
                    getElementRep(st, rep.parent).child.right = kOpaqueRepIdx,
                    "dassert: right child of the parent is not opaque")

RECURSIVE resolveRightSiblings(_, _)
\* The loop of resolveRightChild: the state after resolving the right siblings
\* from 'current' on, and the last element of the chain.
resolveRightSiblings(st, current) ==
    IF current = kInvalidRepIdx THEN [st |-> st, current |-> current]
    ELSE LET next(s) == IF getElementRep(s, current).sibling.right = kInvalidRepIdx
                        THEN [st |-> s, current |-> current]
                        ELSE resolveRightSiblings(s, getElementRep(s, current).sibling.right)
         IN next(resolveRightSibling(st, current))

\* resolveRightChild returns 'current'; the state is 'st'.
resolveRightChild(st, index) ==
    LET current == getElementRep(st, index).child.right IN
    IF current # kOpaqueRepIdx THEN [st |-> st, current |-> current]
    ELSE LET siblings(s) == resolveRightSiblings(s, getElementRep(s, index).child.left)
             found(r) == [st |-> Flag(r.st, getElementRep(r.st, index).child.right = r.current,
                                      "dassert: right child not determined by resolveRightSibling"),
                          current |-> r.current]
         IN found(siblings(resolveLeftChild(st, index)))

\* Element::leftSibling: the left sibling as the rep has it; nothing is resolved.
leftSibling(st, this) ==
    [st |-> Flag(st, getElementRep(st, this).sibling.left # kOpaqueRepIdx,
                 "dassert: opaque left sibling"),
     current |-> getElementRep(st, this).sibling.left]

RECURSIVE deserialize(_, _)
deserialize(st, index) ==
    IF index = kInvalidRepIdx THEN st
    ELSE LET st1 == Flag(st, ~isLeaf(st, index), "dassert: deserialize of a leaf") IN
         IF ~getElementRep(st, index).serialized THEN st1
         ELSE deserialize([st1 EXCEPT !.elements[index + 1].serialized = FALSE],
                          getElementRep(st, index).parent)

\* disableInPlaceUpdates that clears the events and leaves the mode as it is.
disableInPlaceUpdatesClearsOnly(st) == [st EXCEPT !.damages = <<>>]

disableInPlaceUpdates(st) == [st EXCEPT !.damages = <<>>, !.inPlace = FALSE]

recordDamageEvent(st, targetOffset, sourceOffset, size) ==
    [st EXCEPT !.damages = Append(@, [targetOffset |-> targetOffset,
                                      sourceOffset |-> sourceOffset, size |-> size])]

\* insertFieldName that puts the name in front of the heap and returns the size
\* of the heap before all the same.
insertFieldNameInFront(st, fieldName) == [st EXCEPT !.fieldNames = fieldName \o <<0>> \o @]

\* insertFieldName(fieldName): the state and the id, the size of the heap before.
insertFieldName(st, fieldName) == [st EXCEPT !.fieldNames = @ \o fieldName \o <<0>>]

insertedFieldNameId(st) == Len(st.fieldNames)

\* insertLeafElement(offset): _objects[0] is the builder's object again.
insertLeafElement(st, offset) ==
    insertElement(st, [makeRep EXCEPT !.objIdx = kLeafObjIdx, !.serialized = TRUE,
                                      !.offset = offset])

\* leafBuilder().len(): the header of the builder's object and what was appended.
leafBuilderLen(st) == 4 + Len(st.leafBuf)

(***************************************************************************)
(* Document::makeElement*.  Each returns the state; the new Element is the *)
(* one insertedId of the state before names.                               *)
(***************************************************************************)
\* The leaf builder appends an element and insertLeafElement makes its rep.
appendLeaf(st, bytes) ==
    insertLeafElement([st EXCEPT !.leafBuf = @ \o bytes], leafBuilderLen(st))

makeElementDouble(st, fieldName, value) ==
    appendLeaf(st, EncodeElt(Leaf(fieldName, BSONType.NumberDouble, value)))

makeElementBool(st, fieldName, value) ==
    appendLeaf(st, EncodeElt(Leaf(fieldName, BSONType.Bool, value)))

makeElementDate(st, fieldName, value) ==
    appendLeaf(st, EncodeElt(Leaf(fieldName, BSONType.Date, value)))

makeElementInt(st, fieldName, value) ==
    appendLeaf(st, EncodeElt(Leaf(fieldName, BSONType.NumberInt, value)))

makeElementLong(st, fieldName, value) ==
    appendLeaf(st, EncodeElt(Leaf(fieldName, BSONType.NumberLong, value)))

makeElementObject(st, fieldName) ==
    insertElement(insertFieldName(st, fieldName),
                  [makeRep EXCEPT !.offset = insertedFieldNameId(st)])

makeElementArray(st, fieldName) ==
    insertElement(insertFieldName(st, fieldName),
                  [makeRep EXCEPT !.array = TRUE, !.offset = insertedFieldNameId(st)])

\* makeElementObject(fieldName, value) and makeElementArray(fieldName, value) for
\* an element that is not the root: 'value' is the bytes of the BSONObj.
makeElementObjectValue(st, fieldName, value) ==
    LET st1 == appendLeaf(st, <<BSONType.Object>> \o fieldName \o <<0>> \o value)
    IN [st1 EXCEPT !.elements[insertedId(st) + 1].child.left = kOpaqueRepIdx,
                   !.elements[insertedId(st) + 1].child.right = kOpaqueRepIdx]

makeElementArrayValue(st, fieldName, value) ==
    LET st1 == appendLeaf(st, <<BSONType.Array>> \o fieldName \o <<0>> \o value)
    IN [st1 EXCEPT !.elements[insertedId(st) + 1].child.left = kOpaqueRepIdx,
                   !.elements[insertedId(st) + 1].child.right = kOpaqueRepIdx]

\* makeElementWithNewFieldName(fieldName, const BSONElement& value): the switch on
\* the type of the element at 'off' of 'buf'.
makeElementWithNewFieldName(st, fieldName, buf, off) ==
    LET t == EltType(buf, off) IN
    IF t = BSONType.Object THEN makeElementObjectValue(st, fieldName, EltValue(buf, off))
    ELSE IF t = BSONType.Array THEN makeElementArrayValue(st, fieldName, EltValue(buf, off))
    ELSE appendLeaf(st, <<t>> \o fieldName \o <<0>> \o EltValue(buf, off))

(***************************************************************************)
(* Element::writeElement and Element::writeChildren.  A builder is         *)
(* [buf, array, n]: the bytes appended, whether it is a BSONArrayBuilder,  *)
(* and the number of elements appended (an array builder names them).      *)
(* 'fuel' bounds the elements visited: a walk that exhausts it would not   *)
(* end in the code.                                                        *)
(***************************************************************************)
RECURSIVE DecimalName(_)
DecimalName(n) == IF n < 10 THEN <<48 + n>> ELSE DecimalName(n \div 10) \o <<48 + (n % 10)>>

newBuilder(array) == [buf |-> <<>>, array |-> array, n |-> 0]

\* builder->appendAs(element, fieldName); an array builder names the element itself.
builderAppendAs(b, buf, off, fieldName) ==
    LET name == IF b.array THEN DecimalName(b.n) ELSE fieldName
    IN [b EXCEPT !.buf = @ \o <<EltType(buf, off)>> \o name \o <<0>> \o EltValue(buf, off),
                 !.n = @ + 1]

\* builder->append(element)
builderAppend(b, buf, off) == builderAppendAs(b, buf, off, EltFieldName(buf, off))

\* SubBuilder, the children written by 'sub' and doneFast.
builderAppendSub(b, type, fieldName, sub) ==
    LET name == IF b.array THEN DecimalName(b.n) ELSE fieldName
    IN [b EXCEPT !.buf = @ \o <<type>> \o name \o <<0>> \o BuilderObj(sub.buf), !.n = @ + 1]

RECURSIVE writeElement(_, _, _, _, _, _)
RECURSIVE writeSiblings(_, _, _, _)
\* writeChildren that starts at the right child instead of the left child.
writeChildrenFromRight(st, idx, b, fuel) ==
    LET from(r) == writeSiblings(r.st, r.current, b, fuel)
    IN from(resolveRightChild(st, idx))

\* The state and the builder after writeChildren.
writeChildren(st, idx, b, fuel) ==
    LET from(s) == writeSiblings(s, getElementRep(s, idx).child.left, b, fuel)
    IN from(resolveLeftChild(st, idx))

\* The loop of writeChildren from 'current' on.
writeSiblings(st, current, b, fuel) ==
    IF current = kInvalidRepIdx THEN [st |-> st, b |-> b, fuel |-> fuel]
    ELSE IF fuel = 0 THEN [st |-> Flag(st, FALSE, "writeTo does not end"), b |-> b, fuel |-> 0]
    ELSE LET next(s, w) == writeSiblings(s, getElementRep(s, current).sibling.right,
                                         w.b, w.fuel)
             written(w) == next(resolveRightSibling(w.st, current), w)
         IN written(writeElement(st, current, b, FALSE, <<>>, fuel - 1))

\* writeElement that writes the children of an array to an object builder.
writeElementAsObject(st, idx, b, hasFieldName, fieldName, fuel) ==
    LET thisRep == getElementRep(st, idx) IN
    IF hasValue(st, idx)
    THEN LET buf == getObject(st, thisRep.objIdx) IN
         [st |-> st,
          b |-> IF hasFieldName THEN builderAppendAs(b, buf, thisRep.offset, fieldName)
                ELSE builderAppend(b, buf, thisRep.offset),
          fuel |-> fuel]
    ELSE LET type == getType(st, idx)
             subName == IF hasFieldName THEN fieldName ELSE getFieldName(st, idx)
         IN IF IsContainerType(type)
            THEN LET sub(w) == [st |-> w.st, b |-> builderAppendSub(b, type, subName, w.b),
                                    fuel |-> w.fuel]
                 IN sub(writeChildren(st, idx, newBuilder(FALSE), fuel))
            ELSE [st |-> Flag(st, FALSE, "verify: write of a leaf without a value"),
                  b |-> b, fuel |-> fuel]

writeElement(st, idx, b, hasFieldName, fieldName, fuel) ==
    LET thisRep == getElementRep(st, idx) IN
    IF hasValue(st, idx)
    THEN LET buf == getObject(st, thisRep.objIdx) IN
         [st |-> st,
          b |-> IF hasFieldName THEN builderAppendAs(b, buf, thisRep.offset, fieldName)
                ELSE builderAppend(b, buf, thisRep.offset),
          fuel |-> fuel]
    ELSE LET type == getType(st, idx)
             subName == IF hasFieldName THEN fieldName ELSE getFieldName(st, idx)
         IN IF IsContainerType(type)
            THEN LET sub(w) == [st |-> w.st, b |-> builderAppendSub(b, type, subName, w.b),
                                    fuel |-> w.fuel]
                 IN sub(writeChildren(st, idx, newBuilder(type = BSONType.Array), fuel))
            ELSE [st |-> Flag(st, FALSE, "verify: write of a leaf without a value"),
                  b |-> b, fuel |-> fuel]

\* What bounds a walk of the document: no tree over these reps and bytes has more
\* elements.
WriteFuel(st) == Len(st.elements) + Len(st.leafBuf) + Len(input)

\* Element::writeTo of the root: the state after it and the object the caller's
\* builder then holds.
writeTo(st) ==
    LET done(w) == [st |-> w.st, obj |-> BuilderObj(w.b.buf)]
    IN done(writeChildren(st, kRootRepIdx, newBuilder(FALSE), WriteFuel(st)))

\* Element::writeArrayTo: the state after it and the array the caller's
\* BSONArrayBuilder then holds.
writeArrayTo(st, this) ==
    LET done(w) == [st |-> Flag(w.st, getType(st, this) = BSONType.Array,
                                "verify: writeArrayTo of an element that is no array"),
                    obj |-> BuilderObj(w.b.buf)]
    IN done(writeChildren(st, this, newBuilder(TRUE), WriteFuel(st)))

(***************************************************************************)
(* Comparison.  BSONElement::woCompare and BSONObj::woCompare are the wire  *)
(* format's comparison: the canonical types, then the field names if they  *)
(* are considered, then the values, the elements of an object or an array  *)
(* in order and with their field names.  A number is the first byte of its *)
(* payload.  The operators of Element return [st, cmp]: leftChild and      *)
(* rightSibling resolve the elements they come to.                         *)
(***************************************************************************)
canonicalizeBSONType(t) ==
    CASE t \in {BSONType.NumberDouble, BSONType.NumberInt, BSONType.NumberLong} -> 10
      [] t = BSONType.Object -> 20
      [] t = BSONType.Array -> 25
      [] t = BSONType.Bool -> 40
      [] t = BSONType.Date -> 45
      [] OTHER -> 0

RECURSIVE StrCompare(_, _)
StrCompare(a, b) ==
    IF a = <<>> THEN (IF b = <<>> THEN 0 ELSE -1)
    ELSE IF b = <<>> THEN 1
    ELSE IF Head(a) # Head(b) THEN Head(a) - Head(b)
    ELSE StrCompare(Tail(a), Tail(b))

RECURSIVE woCompare(_, _, _, _, _)
RECURSIVE objWoCompare(_, _, _, _)
compareElementValues(lbuf, loff, rbuf, roff) ==
    IF IsContainerType(EltType(lbuf, loff))
    THEN objWoCompare(EltValue(lbuf, loff), 4, EltValue(rbuf, roff), 4)
    ELSE IF EltValue(lbuf, loff) = <<>> \/ EltValue(rbuf, roff) = <<>> THEN 0
    ELSE EltValue(lbuf, loff)[1] - EltValue(rbuf, roff)[1]

woCompare(lbuf, loff, rbuf, roff, considerFieldName) ==
    LET x == canonicalizeBSONType(EltType(lbuf, loff)) - canonicalizeBSONType(EltType(rbuf, roff))
        names == StrCompare(EltFieldName(lbuf, loff), EltFieldName(rbuf, roff))
    IN IF x # 0 THEN x
       ELSE IF considerFieldName /\ names # 0 THEN names
       ELSE compareElementValues(lbuf, loff, rbuf, roff)

\* BSONObj::woCompare from the elements at loff and roff on.
objWoCompare(lbuf, loff, rbuf, roff) ==
    IF EltEoo(lbuf, loff) THEN (IF EltEoo(rbuf, roff) THEN 0 ELSE -1)
    ELSE IF EltEoo(rbuf, roff) THEN 1
    ELSE LET x == woCompare(lbuf, loff, rbuf, roff, TRUE)
         IN IF x # 0 THEN x
            ELSE objWoCompare(lbuf, loff + EltSize(lbuf, loff), rbuf, roff + EltSize(rbuf, roff))

Compared(st, cmp) == [st |-> st, cmp |-> cmp]

RECURSIVE compareWithBSONElement(_, _, _, _, _, _)
\* The loop of compareWithBSONObj: 'thisIter' against the elements of 'buf' from
\* 'off' on.
RECURSIVE compareWithBSONObjFrom(_, _, _, _, _, _)
compareWithBSONObjFrom(st, thisIter, buf, off, considerFieldName, fuel) ==
    IF thisIter = kInvalidRepIdx THEN Compared(st, IF EltEoo(buf, off) THEN 0 ELSE -1)
    ELSE IF EltEoo(buf, off) THEN Compared(st, 1)
    ELSE IF fuel = 0 THEN Compared(Flag(st, FALSE, "compareWith does not end"), 0)
    ELSE LET next(s) == compareWithBSONObjFrom(s, getElementRep(s, thisIter).sibling.right,
                                               buf, off + EltSize(buf, off),
                                               considerFieldName, fuel - 1)
             then(r) == IF r.cmp # 0 THEN r ELSE next(resolveRightSibling(r.st, thisIter))
         IN then(compareWithBSONElement(st, thisIter, buf, off, considerFieldName, fuel - 1))

compareWithBSONObj(st, this, obj, considerFieldName, fuel) ==
    LET from(s) == compareWithBSONObjFrom(s, getElementRep(s, this).child.left, obj, 4,
                                          considerFieldName, fuel)
    IN from(resolveLeftChild(Flag(st, ~isLeaf(st, this), "verify: compareWithBSONObj of a leaf"),
                             this))

compareWithBSONElement(st, this, buf, off, considerFieldName, fuel) ==
    IF hasValue(st, this)
    THEN Compared(st, woCompare(getObject(st, getElementRep(st, this).objIdx),
                                getElementRep(st, this).offset, buf, off, considerFieldName))
    ELSE LET diffCanon == canonicalizeBSONType(getType(st, this))
                            - canonicalizeBSONType(EltType(buf, off))
             fnamesComp == StrCompare(getFieldName(st, this), EltFieldName(buf, off))
             st1 == Flag(st, ~isLeaf(st, this), "dassert: compare of a leaf without a value")
         IN IF diffCanon # 0 THEN Compared(st1, diffCanon)
            ELSE IF considerFieldName /\ fnamesComp # 0 THEN Compared(st1, fnamesComp)
            ELSE compareWithBSONObj(st1, this, EltValue(buf, off),
                                    getType(st, this) # BSONType.Array
                                      /\ EltType(buf, off) # BSONType.Array,
                                    fuel)

RECURSIVE compareWithElement(_, _, _, _, _)
\* The loop of compareWithElement over the children of the two elements.
RECURSIVE compareSiblings(_, _, _, _, _)
compareSiblings(st, thisIter, otherIter, considerFieldName, fuel) ==
    IF thisIter = kInvalidRepIdx
    THEN Compared(st, IF otherIter = kInvalidRepIdx THEN 0 ELSE -1)
    ELSE IF otherIter = kInvalidRepIdx THEN Compared(st, 1)
    ELSE IF fuel = 0 THEN Compared(Flag(st, FALSE, "compareWith does not end"), 0)
    ELSE LET next(s) == compareSiblings(s, getElementRep(s, thisIter).sibling.right,
                                        getElementRep(s, otherIter).sibling.right,
                                        considerFieldName, fuel - 1)
             then(r) == IF r.cmp # 0 THEN r
                        ELSE next(resolveRightSibling(resolveRightSibling(r.st, thisIter),
                                                      otherIter))
         IN then(compareWithElement(st, thisIter, otherIter, considerFieldName, fuel - 1))

compareWithElement(st, this, other, considerFieldName, fuel) ==
    IF this = other THEN Compared(st, 0)
    ELSE IF hasValue(st, this)
    THEN LET negated(r) == Compared(r.st, -r.cmp)
         IN negated(compareWithBSONElement(st, other,
                                           getObject(st, getElementRep(st, this).objIdx),
                                           getElementRep(st, this).offset,
                                           considerFieldName, fuel))
    ELSE IF hasValue(st, other)
    THEN compareWithBSONElement(st, this, getObject(st, getElementRep(st, other).objIdx),
                                getElementRep(st, other).offset, considerFieldName, fuel)
    ELSE LET diffCanon == canonicalizeBSONType(getType(st, this))
                            - canonicalizeBSONType(getType(st, other))
             fnamesComp == StrCompare(getFieldName(st, this), getFieldName(st, other))
             st1 == Flag(st, ~isLeaf(st, this) /\ ~isLeaf(st, other),
                         "dassert: compare of a leaf without a value")
             children(s) == compareSiblings(s, getElementRep(s, this).child.left,
                                            getElementRep(s, other).child.left,
                                            getType(st, this) # BSONType.Array
                                              /\ getType(st, other) # BSONType.Array,
                                            fuel)
         IN IF diffCanon # 0 THEN Compared(st1, diffCanon)
            ELSE IF considerFieldName /\ fnamesComp # 0 THEN Compared(st1, fnamesComp)
            ELSE children(resolveLeftChild(resolveLeftChild(st1, this), other))

(***************************************************************************)
(* The mutating operations of Element.  Each returns [st, status]: the     *)
(* state it leaves and the Status it returns.  The assignments are made in *)
(* the order of the code, each reading the state left by the one before,   *)
(* since the reps the code holds references to may be one and the same.    *)
(***************************************************************************)
OK == "OK"

Result(st, status) == [st |-> st, status |-> status]

SetParent(st, id, v) == [st EXCEPT !.elements[id + 1].parent = v]

SetSiblingLeft(st, id, v) == [st EXCEPT !.elements[id + 1].sibling.left = v]

SetSiblingRight(st, id, v) == [st EXCEPT !.elements[id + 1].sibling.right = v]

SetChildLeft(st, id, v) == [st EXCEPT !.elements[id + 1].child.left = v]

SetChildRight(st, id, v) == [st EXCEPT !.elements[id + 1].child.right = v]

addSiblingLeft(st, this, e) ==
    IF ~canAttach(e, getElementRep(st, e))
    THEN Result(st, getAttachmentError(getElementRep(st, e)))
    ELSE IF getElementRep(st, this).parent = kInvalidRepIdx
    THEN Result(st, "Attempt to add a sibling to an element without a parent")
    ELSE
        LET p == getElementRep(st, this).parent
            newLeft(s) == SetSiblingLeft(s, e, getElementRep(s, this).sibling.left)
            unlinkedLeft(s) == IF getElementRep(s, e).sibling.left # kInvalidRepIdx
                               THEN SetSiblingRight(s, getElementRep(s, this).sibling.left, e)
                               ELSE s
            leftChild(s) == IF getElementRep(s, p).child.left = this
                            THEN SetChildLeft(s, p, e)
                            ELSE s
            done(s) == deserialize(s, getElementRep(s, this).parent)
        IN Result(done(leftChild(SetSiblingLeft(
                      unlinkedLeft(newLeft(SetSiblingRight(SetParent(
                          disableInPlaceUpdates(
                              Flag(st, ~isLeaf(st, p), "dassert: the parent is a leaf")),
                          e, p), e, this))),
                      this, e))), OK)

addSiblingRight(st, this, e) ==
    IF ~canAttach(e, getElementRep(st, e))
    THEN Result(st, getAttachmentError(getElementRep(st, e)))
    ELSE IF getElementRep(st, this).parent = kInvalidRepIdx
    THEN Result(st, "Attempt to add a sibling to an element without a parent")
    ELSE
        LET p == getElementRep(st, this).parent
            newLinks(s, rightSiblingIdx) ==
                SetSiblingRight(
                    SetSiblingRight(
                        SetSiblingLeft(SetParent(s, e, getElementRep(s, this).parent), e, this),
                        e, rightSiblingIdx),
                    this, e)
            rightSibling(s, rightSiblingIdx) ==
                IF getElementRep(s, e).sibling.right # kInvalidRepIdx
                THEN SetSiblingLeft(s, rightSiblingIdx, e)
                ELSE s
            link(s) == rightSibling(newLinks(s, getElementRep(s, this).sibling.right),
                                    getElementRep(s, this).sibling.right)
            rightChild(s) == IF getElementRep(s, p).child.right = this
                             THEN SetChildRight(s, p, e)
                             ELSE s
            done(s) == deserialize(s, getElementRep(s, this).parent)
        IN Result(done(rightChild(link(
                      resolveRightSibling(
                          disableInPlaceUpdates(
                              Flag(st, ~isLeaf(st, p), "dassert: the parent is a leaf")),
                          this)))), OK)

\* remove that leaves the left sibling pointing at the removed element.
removeKeepsLeftLink(st, this) ==
    LET rightSibling(s) == IF getElementRep(s, this).sibling.right # kInvalidRepIdx
                           THEN SetSiblingLeft(s, getElementRep(s, this).sibling.right,
                                               getElementRep(s, this).sibling.left)
                           ELSE s
        rightChild(s) == IF getElementRep(s, getElementRep(s, this).parent).child.right = this
                         THEN SetChildRight(s, getElementRep(s, this).parent,
                                            getElementRep(s, this).sibling.left)
                         ELSE s
        leftChild(s) == IF getElementRep(s, getElementRep(s, this).parent).child.left = this
                        THEN SetChildLeft(s, getElementRep(s, this).parent,
                                          getElementRep(s, this).sibling.right)
                        ELSE s
        detach(s) == SetSiblingRight(SetSiblingLeft(SetParent(s, this, kInvalidRepIdx),
                                                    this, kInvalidRepIdx),
                                     this, kInvalidRepIdx)
        done(s) == detach(deserialize(s, getElementRep(s, this).parent))
        unlink(s) == IF getElementRep(s, this).parent = kInvalidRepIdx
                     THEN [st |-> s, status |-> "trying to remove a parentless element"]
                     ELSE [st |-> done(leftChild(rightChild(rightSibling(
                                      disableInPlaceUpdates(s))))),
                           status |-> "OK"]
    IN unlink(resolveRightSibling(st, this))

\* remove that clears the parent of the removed element and leaves its siblings.
removeKeepsSiblings(st, this) ==
    LET rightSibling(s) == IF getElementRep(s, this).sibling.right # kInvalidRepIdx
                           THEN SetSiblingLeft(s, getElementRep(s, this).sibling.right,
                                               getElementRep(s, this).sibling.left)
                           ELSE s
        unlinkedLeft(s) == IF getElementRep(s, this).sibling.left # kInvalidRepIdx
                          THEN SetSiblingRight(s, getElementRep(s, this).sibling.left,
                                               getElementRep(s, this).sibling.right)
                          ELSE s
        rightChild(s) == IF getElementRep(s, getElementRep(s, this).parent).child.right = this
                         THEN SetChildRight(s, getElementRep(s, this).parent,
                                            getElementRep(s, this).sibling.left)
                         ELSE s
        leftChild(s) == IF getElementRep(s, getElementRep(s, this).parent).child.left = this
                        THEN SetChildLeft(s, getElementRep(s, this).parent,
                                          getElementRep(s, this).sibling.right)
                        ELSE s
        detach(s) == SetParent(s, this, kInvalidRepIdx)
        done(s) == detach(deserialize(s, getElementRep(s, this).parent))
        unlink(s) == IF getElementRep(s, this).parent = kInvalidRepIdx
                     THEN Result(s, "trying to remove a parentless element")
                     ELSE Result(done(leftChild(rightChild(unlinkedLeft(rightSibling(
                                     disableInPlaceUpdates(s)))))), OK)
    IN unlink(resolveRightSibling(st, this))

remove(st, this) ==
    LET rightSibling(s) == IF getElementRep(s, this).sibling.right # kInvalidRepIdx
                           THEN SetSiblingLeft(s, getElementRep(s, this).sibling.right,
                                               getElementRep(s, this).sibling.left)
                           ELSE s
        unlinkedLeft(s) == IF getElementRep(s, this).sibling.left # kInvalidRepIdx
                          THEN SetSiblingRight(s, getElementRep(s, this).sibling.left,
                                               getElementRep(s, this).sibling.right)
                          ELSE s
        rightChild(s) == IF getElementRep(s, getElementRep(s, this).parent).child.right = this
                         THEN SetChildRight(s, getElementRep(s, this).parent,
                                            getElementRep(s, this).sibling.left)
                         ELSE s
        leftChild(s) == IF getElementRep(s, getElementRep(s, this).parent).child.left = this
                        THEN SetChildLeft(s, getElementRep(s, this).parent,
                                          getElementRep(s, this).sibling.right)
                        ELSE s
        detach(s) == SetSiblingRight(SetSiblingLeft(SetParent(s, this, kInvalidRepIdx),
                                                    this, kInvalidRepIdx),
                                     this, kInvalidRepIdx)
        done(s) == detach(deserialize(s, getElementRep(s, this).parent))
        unlink(s) == IF getElementRep(s, this).parent = kInvalidRepIdx
                     THEN Result(s, "trying to remove a parentless element")
                     ELSE Result(done(leftChild(rightChild(unlinkedLeft(rightSibling(
                                     disableInPlaceUpdates(s)))))), OK)
    IN unlink(resolveRightSibling(st, this))

\* addChild that looks at the receiver before it looks at the argument.
addChildReceiverFirst(st, this, e, front) ==
    IF isLeaf(st, this)
    THEN Result(st, "Attempt to add a child element to a non-object element")
    ELSE IF ~canAttach(e, getElementRep(st, e))
    THEN Result(st, getAttachmentError(getElementRep(st, e)))
    ELSE
        LET leftOf(s) == [st |-> s, current |-> getElementRep(s, this).child.left]
            noChildren(s) == Flag(s, /\ getElementRep(s, this).child.left = kInvalidRepIdx
                                     /\ getElementRep(s, this).child.right = kInvalidRepIdx,
                                  "dassert: addChild of an element that has children")
            sameLeft(s) == SetChildLeft(s, this, getElementRep(s, this).child.right)
            only(s) == deserialize(SetParent(sameLeft(SetChildRight(noChildren(s), this, e)),
                                             e, this), this)
            attach(r) == IF r.current # kInvalidRepIdx
                         THEN IF front THEN addSiblingLeft(r.st, r.current, e)
                              ELSE addSiblingRight(r.st, r.current, e)
                         ELSE Result(only(r.st), OK)
        IN attach(IF front THEN leftOf(resolveLeftChild(disableInPlaceUpdates(st), this))
                  ELSE resolveRightChild(disableInPlaceUpdates(st), this))

addChild(st, this, e, front) ==
    IF ~canAttach(e, getElementRep(st, e))
    THEN Result(st, getAttachmentError(getElementRep(st, e)))
    ELSE IF isLeaf(st, this)
    THEN Result(st, "Attempt to add a child element to a non-object element")
    ELSE
        LET leftOf(s) == [st |-> s, current |-> getElementRep(s, this).child.left]
            noChildren(s) == Flag(s, /\ getElementRep(s, this).child.left = kInvalidRepIdx
                                     /\ getElementRep(s, this).child.right = kInvalidRepIdx,
                                  "dassert: addChild of an element that has children")
            sameLeft(s) == SetChildLeft(s, this, getElementRep(s, this).child.right)
            only(s) == deserialize(SetParent(sameLeft(SetChildRight(noChildren(s), this, e)),
                                             e, this), this)
            attach(r) == IF r.current # kInvalidRepIdx
                         THEN IF front THEN addSiblingLeft(r.st, r.current, e)
                              ELSE addSiblingRight(r.st, r.current, e)
                         ELSE Result(only(r.st), OK)
        IN attach(IF front THEN leftOf(resolveLeftChild(disableInPlaceUpdates(st), this))
                  ELSE resolveRightChild(disableInPlaceUpdates(st), this))

\* pushFront and pushBack of the header are addChild at the front and at the back.
pushFront(st, this, e) == addChild(st, this, e, TRUE)

pushBack(st, this, e) == addChild(st, this, e, FALSE)

\* setValue without its first check, the one that refuses the root.
setValueOfRootToo(st, this, value, isInPlace) ==
    LET place(s, thisRep) ==
            IF thisRep.parent # kInvalidRepIdx
            THEN SetSiblingRight(
                     SetSiblingLeft(SetParent(s, value, thisRep.parent),
                                    value, thisRep.sibling.left),
                     value, thisRep.sibling.right)
            ELSE s
        placed(s) == place(s, getElementRep(s, this))
        copied(s) == [s EXCEPT !.elements[this + 1] = getElementRep(s, value)]
        emptied(s) == [s EXCEPT !.elements[value + 1] = makeRep]
        done(s) == deserialize(s, getElementRep(s, this).parent)
    IN Result(done(emptied(copied(placed(
                  resolveRightSibling(IF isInPlace THEN st ELSE disableInPlaceUpdates(st),
                                      this))))), OK)

\* setValue that copies the rep of the value without wiring it in among the
\* relations of the element first.
setValueUnwired(st, this, value, isInPlace) ==
    IF this = kRootRepIdx THEN Result(st, "Cannot call setValue on the root object")
    ELSE
        LET copied(s) == [s EXCEPT !.elements[this + 1] = getElementRep(s, value)]
            emptied(s) == [s EXCEPT !.elements[value + 1] = makeRep]
            done(s) == deserialize(s, getElementRep(s, this).parent)
        IN Result(done(emptied(copied(
                      resolveRightSibling(IF isInPlace THEN st ELSE disableInPlaceUpdates(st),
                                          this)))), OK)

setValue(st, this, value, isInPlace) ==
    IF this = kRootRepIdx THEN Result(st, "Cannot call setValue on the root object")
    ELSE
        LET place(s, thisRep) ==
                IF thisRep.parent # kInvalidRepIdx
                THEN SetSiblingRight(
                         SetSiblingLeft(SetParent(s, value, thisRep.parent),
                                        value, thisRep.sibling.left),
                         value, thisRep.sibling.right)
                ELSE s
            placed(s) == place(s, getElementRep(s, this))
            copied(s) == [s EXCEPT !.elements[this + 1] = getElementRep(s, value)]
            emptied(s) == [s EXCEPT !.elements[value + 1] = makeRep]
            done(s) == deserialize(s, getElementRep(s, this).parent)
        IN Result(done(emptied(copied(placed(
                      resolveRightSibling(IF isInPlace THEN st ELSE disableInPlaceUpdates(st),
                                          this))))), OK)

\* Document::makeElement(ConstElement, fieldName) of an element of this document:
\* the element is written to a builder of its own and made from the bytes built.
makeElement(st, element, hasFieldName, fieldName) ==
    LET made(s, built) ==
            IF EltEoo(built, 4)
            THEN Flag(s, FALSE, "verify: makeElement of EOO")
            ELSE makeElementWithNewFieldName(s, EltFieldName(built, 4), built, 4)
        written(w) == made(w.st, BuilderObj(w.b.buf))
    IN written(writeElement(st, element, newBuilder(FALSE), hasFieldName, fieldName,
                            WriteFuel(st)))

\* Document::makeElement(ConstElement, fieldName) of an element of another document,
\* 'bytes' being what the writeElement of that element appends.
makeElementOther(st, bytes) == appendLeaf(st, bytes)

rename(st, this, newName) ==
    IF this = kRootRepIdx
    THEN Result(st, "Invalid attempt to rename the root element of a document")
    ELSE
        LET named(s, array) == [s EXCEPT !.elements[this + 1].array = array,
                                         !.elements[this + 1].objIdx = kInvalidObjIdx]
            container(s) ==
                IF getElementRep(s, this).objIdx # kInvalidObjIdx /\ ~isLeaf(s, this)
                THEN named(deserialize(resolveRightSibling(resolveLeftChild(s, this), this),
                                       this),
                           getType(s, this) = BSONType.Array)
                ELSE s
            replaced(s, made) ==
                IF Len(made.elements) = Len(s.elements) THEN Result(made, OK)
                ELSE Result(setValue(made, this, insertedId(s), FALSE).st, OK)
            renamed(s) ==
                IF hasValue(s, this)
                THEN replaced(s, makeElement(s, this, TRUE, newName))
                ELSE Result([insertFieldName(s, newName)
                                EXCEPT !.elements[this + 1].offset = insertedFieldNameId(s)], OK)
        IN renamed(container(disableInPlaceUpdates(st)))

\* The setter of a fixed size value that takes every replacement of a value of the
\* input for an in-place update, whatever its size.
setValueFixedAnySize(st, this, type, value) ==
    LET thisRep == getElementRep(st, this)
        new == insertedId(st)
        made == appendLeaf(st, EncodeElt(Leaf(getFieldName(st, this), type, value)))
    IN IF st.inPlace /\ hasValue(st, this) /\ thisRep.objIdx # kLeafObjIdx
       THEN setValue(recordDamageEvent(made, thisRep.offset, getElementRep(made, new).offset,
                                       1 + Len(getFieldName(st, this)) + 1 + FixedSize(type)),
                     this, new, TRUE)
       ELSE setValue(made, this, new, FALSE)

\* The setter of a fixed size value that takes the value to start right after the
\* field name, without the type byte before the name.
setValueFixedFromName(st, this, type, value) ==
    LET thisRep == getElementRep(st, this)
        new == insertedId(st)
        made == appendLeaf(st, EncodeElt(Leaf(getFieldName(st, this), type, value)))
        thisBuf == getObject(st, thisRep.objIdx)
        newBuf == getObject(made, kLeafObjIdx)
        newOff == getElementRep(made, new).offset
    IN IF st.inPlace /\ hasValue(st, this) /\ thisRep.objIdx # kLeafObjIdx
          /\ EltSize(thisBuf, thisRep.offset) = EltSize(newBuf, newOff)
       THEN LET s1 == IF EltType(thisBuf, thisRep.offset) # EltType(newBuf, newOff)
                      THEN recordDamageEvent(made, thisRep.offset, newOff, 1)
                      ELSE made
            IN setValue(recordDamageEvent(s1,
                            thisRep.offset + EltFieldNameSize(thisBuf, thisRep.offset),
                            newOff + EltFieldNameSize(thisBuf, thisRep.offset),
                            EltValueSize(thisBuf, thisRep.offset)),
                        this, new, TRUE)
       ELSE setValue(made, this, new, FALSE)

\* The setter of a fixed size value that updates in place an element of the leaf
\* builder as well.
setValueFixedInLeafHeapToo(st, this, type, value) ==
    LET thisRep == getElementRep(st, this)
        new == insertedId(st)
        made == appendLeaf(st, EncodeElt(Leaf(getFieldName(st, this), type, value)))
        thisBuf == getObject(st, thisRep.objIdx)
        newBuf == getObject(made, kLeafObjIdx)
        newOff == getElementRep(made, new).offset
    IN IF st.inPlace /\ hasValue(st, this)
          /\ EltSize(thisBuf, thisRep.offset) = EltSize(newBuf, newOff)
       THEN LET s1 == IF EltType(thisBuf, thisRep.offset) # EltType(newBuf, newOff)
                      THEN recordDamageEvent(made, thisRep.offset, newOff, 1)
                      ELSE made
            IN setValue(recordDamageEvent(s1,
                            thisRep.offset + EltFieldNameSize(thisBuf, thisRep.offset) + 1,
                            newOff + EltFieldNameSize(thisBuf, thisRep.offset) + 1,
                            EltValueSize(thisBuf, thisRep.offset)),
                        this, new, TRUE)
       ELSE setValue(made, this, new, FALSE)

\* The setter of a fixed size value that records the value alone when the type
\* changes.
setValueFixedValueOnly(st, this, type, value) ==
    LET thisRep == getElementRep(st, this)
        new == insertedId(st)
        made == appendLeaf(st, EncodeElt(Leaf(getFieldName(st, this), type, value)))
        thisBuf == getObject(st, thisRep.objIdx)
        newBuf == getObject(made, kLeafObjIdx)
        newOff == getElementRep(made, new).offset
    IN IF st.inPlace /\ hasValue(st, this) /\ thisRep.objIdx # kLeafObjIdx
          /\ EltSize(thisBuf, thisRep.offset) = EltSize(newBuf, newOff)
       THEN setValue(recordDamageEvent(made,
                         thisRep.offset + EltFieldNameSize(thisBuf, thisRep.offset) + 1,
                         newOff + EltFieldNameSize(thisBuf, thisRep.offset) + 1,
                         EltValueSize(thisBuf, thisRep.offset)),
                     this, new, TRUE)
       ELSE setValue(made, this, new, FALSE)

\* setValueDouble, setValueBool, setValueInt and setValueLong are one text but for
\* the makeElement call: 'type' and 'value' stand for it.
setValueFixed(st, this, type, value) ==
    LET thisRep == getElementRep(st, this)
        new == insertedId(st)
        made == appendLeaf(st, EncodeElt(Leaf(getFieldName(st, this), type, value)))
        thisBuf == getObject(st, thisRep.objIdx)
        newBuf == getObject(made, kLeafObjIdx)
        newOff == getElementRep(made, new).offset
    IN IF st.inPlace /\ hasValue(st, this) /\ thisRep.objIdx # kLeafObjIdx
          /\ EltSize(thisBuf, thisRep.offset) = EltSize(newBuf, newOff)
       THEN LET s1 == IF EltType(thisBuf, thisRep.offset) # EltType(newBuf, newOff)
                      THEN recordDamageEvent(made, thisRep.offset, newOff, 1)
                      ELSE made
                s2 == Flag(s1, /\ EltFieldNameSize(thisBuf, thisRep.offset)
                                    = EltFieldNameSize(newBuf, newOff)
                               /\ EltValueSize(thisBuf, thisRep.offset)
                                    = EltValueSize(newBuf, newOff),
                           "dassert: sizes of the in-place update differ")
                s3 == recordDamageEvent(s2,
                          thisRep.offset + EltFieldNameSize(thisBuf, thisRep.offset) + 1,
                          newOff + EltFieldNameSize(thisBuf, thisRep.offset) + 1,
                          EltValueSize(thisBuf, thisRep.offset))
            IN setValue(s3, this, new, TRUE)
       ELSE setValue(made, this, new, FALSE)

setValueDouble(st, this, value) == setValueFixed(st, this, BSONType.NumberDouble, value)

setValueBool(st, this, value) == setValueFixed(st, this, BSONType.Bool, value)

setValueInt(st, this, value) == setValueFixed(st, this, BSONType.NumberInt, value)

setValueLong(st, this, value) == setValueFixed(st, this, BSONType.NumberLong, value)

setValueDate(st, this, value) ==
    setValue(makeElementDate(st, getFieldName(st, this), value), this, insertedId(st), FALSE)

setValueObject(st, this, value) ==
    setValue(makeElementObjectValue(st, getFieldName(st, this), value), this,
             insertedId(st), FALSE)

setValueArray(st, this, value) ==
    setValue(makeElementArrayValue(st, getFieldName(st, this), value), this,
             insertedId(st), FALSE)

\* Element::setValueBSONElement: the switch on the type of 'value', the element at
\* 'off' of 'buf'.  The numbers of the fixed size types are read from the element.
setValueBSONElement(st, this, buf, off) ==
    CASE EltType(buf, off) = BSONType.EOO ->
             Result(st, "Can't set Element value to EOO")
      [] EltType(buf, off) = BSONType.NumberDouble ->
             setValueDouble(st, this, EltValue(buf, off)[1])
      [] EltType(buf, off) = BSONType.Object ->
             setValueObject(st, this, EltValue(buf, off))
      [] EltType(buf, off) = BSONType.Array ->
             setValueArray(st, this, EltValue(buf, off))
      [] EltType(buf, off) = BSONType.Bool ->
             setValueBool(st, this, EltValue(buf, off)[1])
      [] EltType(buf, off) = BSONType.Date ->
             setValueDate(st, this, EltValue(buf, off)[1])
      [] EltType(buf, off) = BSONType.NumberInt ->
             setValueInt(st, this, EltValue(buf, off)[1])
      [] EltType(buf, off) = BSONType.NumberLong ->
             setValueLong(st, this, EltValue(buf, off)[1])
      [] OTHER -> Result(Flag(st, FALSE, "verify: setValueBSONElement of no type"), OK)

\* getInPlaceUpdates: whether it returns true, the events it hands over, and the
\* state: the events are swapped out of the log.
\* getInPlaceUpdates that copies the events out and keeps them in the log.
getInPlaceUpdatesKeepsLog(st) ==
    IF ~st.inPlace THEN [st |-> st, ok |-> FALSE, damages |-> <<>>, source |-> <<>>]
    ELSE [st |-> st, ok |-> TRUE, damages |-> st.damages,
          source |-> BuilderObj(st.leafBuf)]

\* 'source' is the object of the leaf builder, or <<>> for the NULL pointer.
getInPlaceUpdates(st) ==
    IF ~st.inPlace THEN [st |-> st, ok |-> FALSE, damages |-> <<>>, source |-> <<>>]
    ELSE [st |-> [st EXCEPT !.damages = <<>>], ok |-> TRUE, damages |-> st.damages,
          source |-> getObject(st, kLeafObjIdx)]

(***************************************************************************)
(* The reference document: an ordered tree of named values kept beside the *)
(* code's state.  ref is a sequence of nodes [name, type, val, kids], kids *)
(* the node ids of the children in order; a node that is in no kids is     *)
(* detached.  An edit the code reports as successful is applied to it.     *)
(***************************************************************************)
RECURSIVE addTree(_, _)
RECURSIVE addTrees(_, _, _)
\* The nodes of a value tree appended to 'r', and the id of its top node.
addTree(r, t) ==
    LET k == addTrees(r, t.kids, <<>>)
    IN [ref |-> Append(k.ref, [name |-> t.name, type |-> t.type, val |-> t.val, kids |-> k.ids]),
        id |-> Len(k.ref) + 1]

addTrees(r, trees, ids) ==
    IF trees = <<>> THEN [ref |-> r, ids |-> ids]
    ELSE LET a == addTree(r, Head(trees))
         IN addTrees(a.ref, Tail(trees), Append(ids, a.id))

RECURSIVE refEncodeElts(_, _, _, _)
\* The encoding of the children 'kids' from the k-th on; an array names them by
\* their position.
refEncodeElts(r, kids, k, array) ==
    IF k > Len(kids) THEN <<>>
    ELSE LET n == r[kids[k]]
             name == IF array THEN DecimalName(k - 1) ELSE n.name
             value == IF IsContainerType(n.type)
                      THEN BuilderObj(refEncodeElts(r, n.kids, 1, n.type = BSONType.Array))
                      ELSE n.val
         IN <<n.type>> \o name \o <<0>> \o value \o refEncodeElts(r, kids, k + 1, array)

\* The bytes of the reference document: the object of its root.
refObj == BuilderObj(refEncodeElts(ref, ref[href[1]].kids, 1, FALSE))

refParent(r, n) ==
    IF \E p \in 1..Len(r) : \E k \in 1..Len(r[p].kids) : r[p].kids[k] = n
    THEN CHOOSE p \in 1..Len(r) : \E k \in 1..Len(r[p].kids) : r[p].kids[k] = n
    ELSE NoNode

RECURSIVE refIsAncestorOrSelf(_, _, _)
refIsAncestorOrSelf(r, a, n) ==
    IF n = NoNode THEN FALSE
    ELSE IF a = n THEN TRUE
    ELSE refIsAncestorOrSelf(r, a, refParent(r, n))

SeqWithout(seq, x) == SelectSeq(seq, LAMBDA y : y # x)

SeqInsertAt(seq, k, x) == SubSeq(seq, 1, k - 1) \o <<x>> \o SubSeq(seq, k, Len(seq))

IndexIn(seq, x) == CHOOSE k \in 1..Len(seq) : seq[k] = x

\* The node n becomes a child of p at position k.  Nothing happens when one of
\* them is no node, when n has a parent, or when n is p or above it.
refAttach(r, p, k, n) ==
    IF p = NoNode \/ n = NoNode \/ refParent(r, n) # NoNode \/ refIsAncestorOrSelf(r, n, p)
    THEN r
    ELSE [r EXCEPT ![p].kids = SeqInsertAt(@, k, n)]

refAddSibling(r, target, n, right) ==
    LET p == refParent(r, target) IN
    IF p = NoNode THEN r
    ELSE refAttach(r, p, IndexIn(r[p].kids, target) + (IF right THEN 1 ELSE 0), n)

refAddChild(r, p, n, front) ==
    IF p = NoNode THEN r
    ELSE refAttach(r, p, IF front THEN 1 ELSE Len(r[p].kids) + 1, n)

refRemove(r, n) ==
    LET p == refParent(r, n) IN
    IF p = NoNode THEN r ELSE [r EXCEPT ![p].kids = SeqWithout(@, n)]

refRename(r, n, name) == IF n = NoNode THEN r ELSE [r EXCEPT ![n].name = name]

\* The node n takes the type and the value of the value tree t and keeps its name;
\* the children it had are detached.
refSetValue(r, n, t) ==
    IF n = NoNode THEN r
    ELSE LET k == addTrees(r, t.kids, <<>>)
         IN [k.ref EXCEPT ![n].type = t.type, ![n].val = t.val, ![n].kids = k.ids]

(***************************************************************************)
(* The documents, names and values the operations are called with.         *)
(***************************************************************************)
Name(c) == <<c>>

\* The children of the input objects {a: 1, b: 2}, {a: {x: 1}, b: 2},
\* {a: {"": true}}, {a: [1, 2]}, {a: {x: 1, y: {z: true}}, b: [1.5]} and {}.
DocAB == <<Leaf(Name(97), BSONType.NumberInt, 1), Leaf(Name(98), BSONType.NumberInt, 2)>>

DocNested ==
    <<Container(Name(97), BSONType.Object, <<Leaf(Name(120), BSONType.NumberInt, 1)>>),
      Leaf(Name(98), BSONType.NumberInt, 2)>>

DocBool == <<Container(Name(97), BSONType.Object, <<Leaf(<<>>, BSONType.Bool, 1)>>)>>

DocArray ==
    <<Container(Name(97), BSONType.Array,
                <<Leaf(Name(48), BSONType.NumberInt, 1), Leaf(Name(49), BSONType.NumberInt, 2)>>)>>

DocDeep ==
    <<Container(Name(97), BSONType.Object,
                <<Leaf(Name(120), BSONType.NumberInt, 1),
                  Container(Name(121), BSONType.Object, <<Leaf(Name(122), BSONType.Bool, 1)>>)>>),
      Container(Name(98), BSONType.Array, <<Leaf(Name(48), BSONType.NumberDouble, 15)>>)>>

\* {a: [2], b: [2, 3]}: two arrays that are equal once the second loses its last
\* element.
DocCmp ==
    <<Container(Name(97), BSONType.Array, <<Leaf(Name(48), BSONType.NumberInt, 2)>>),
      Container(Name(98), BSONType.Array,
                <<Leaf(Name(48), BSONType.NumberInt, 2), Leaf(Name(49), BSONType.NumberInt, 3)>>)>>

\* {xs: {x: 1, X: 2}, ys: {y: 3}}, the document of the overview of the code with
\* numbers for its strings.
DocXs ==
    <<Container(<<120, 115>>, BSONType.Object,
                <<Leaf(Name(120), BSONType.NumberInt, 1), Leaf(Name(88), BSONType.NumberInt, 2)>>),
      Container(<<121, 115>>, BSONType.Object, <<Leaf(Name(121), BSONType.NumberInt, 3)>>)>>

\* {d: 1.5}, a double that a long can replace in place.
DocDouble == <<Leaf(Name(100), BSONType.NumberDouble, 15)>>

DocNone == <<>>

InputDocs == {DocAB, DocNested, DocBool, DocArray, DocDeep, DocXs, DocNone}

\* The value of setValueObject: {y: 2}.
ObjectValue == <<Leaf(Name(121), BSONType.NumberInt, 2)>>

\* The values of setValueBSONElement: the EOO that ends the empty object (at
\* offset 4, behind the size), and the element of {"": 7}.
EooObj == EncodeObj(<<>>)

IntObj == EncodeObj(<<Leaf(<<>>, BSONType.NumberInt, 7)>>)

NewName == Name(110)

MadeName == Name(99)

(***************************************************************************)
(* The state of the Impl as a record, and the step that installs a record. *)
(***************************************************************************)
St ==
    [elements |-> elements, leafBuf |-> leafBuf, fieldNames |-> fieldNames,
     damages |-> damages, inPlace |-> inPlace, flags |-> flags, href |-> href]

Install(st, r, nh) ==
    /\ elements' = st.elements
    /\ leafBuf' = st.leafBuf
    /\ fieldNames' = st.fieldNames
    /\ damages' = st.damages
    /\ inPlace' = st.inPlace
    /\ flags' = st.flags
    /\ href' = st.href
    /\ ref' = r
    /\ noHandle' = nh
    /\ UNCHANGED <<input, hasInput, mode>>

\* The RepIdxs an Element may hold: every rep but those a setValue has emptied.
Handles == (0 .. (Len(elements) - 1)) \ noHandle

\* The calls that make an element or edit the document are made while the bound
\* allows it; a call that leaves the Impl as it was is not counted.
CanCall == calls < MaxCalls

Called(st) == calls' = IF st = St THEN calls ELSE calls + 1

(***************************************************************************)
(* Construction.                                                           *)
(***************************************************************************)
\* Document(): the root is makeElementObject(kRootFieldName).
InitEmpty ==
    /\ hasInput = FALSE
    /\ input = <<>>
    /\ mode = FALSE
    /\ inPlace = FALSE
    /\ elements = <<makeRep>>
    /\ ref = <<Container(<<>>, BSONType.Object, <<>>)>>
    /\ href = <<1>>

\* Document(value, inPlaceMode): the root is makeElementObject(kRootFieldName, value).
InitValue(docs, modes) ==
    /\ hasInput = TRUE
    /\ \E doc \in docs :
          /\ input = EncodeObj(doc)
          /\ ref = addTree(<<>>, Container(<<>>, BSONType.Object, doc)).ref
          /\ href = <<addTree(<<>>, Container(<<>>, BSONType.Object, doc)).id>>
    /\ mode \in modes
    /\ inPlace = mode
    /\ elements = <<[makeRep EXCEPT !.objIdx = kInputObjIdx, !.serialized = TRUE,
                                    !.child.left = kOpaqueRepIdx,
                                    !.child.right = kOpaqueRepIdx]>>

\* What the Impl constructor leaves beside the root.
InitImpl ==
    /\ leafBuf = <<>>
    /\ fieldNames = <<0>>
    /\ damages = <<>>
    /\ flags = {}
    /\ noHandle = {}
    /\ delivered = <<>>
    /\ calls = 0

(***************************************************************************)
(* The calls of the API, each on any Element the caller may hold.          *)
(***************************************************************************)
LeftChild ==
    \E h \in Handles :
        /\ Install(resolveLeftChild(St, h), ref, noHandle)
        /\ UNCHANGED <<delivered, calls>>

RightChild ==
    \E h \in Handles :
        /\ Install(resolveRightChild(St, h).st, ref, noHandle)
        /\ UNCHANGED <<delivered, calls>>

\* hasChildren resolves the left child as leftChild does.
HasChildren ==
    \E h \in Handles :
        /\ Install(resolveLeftChild(St, h), ref, noHandle)
        /\ UNCHANGED <<delivered, calls>>

RightSibling ==
    \E h \in Handles :
        /\ Install(resolveRightSibling(St, h), ref, noHandle)
        /\ UNCHANGED <<delivered, calls>>

\* compareWithElement of two elements of the document: what it resolves stays.
CompareWith ==
    \E h \in Handles, e \in Handles, considerFieldName \in BOOLEAN :
        /\ Install(compareWithElement(St, h, e, considerFieldName, WriteFuel(St)).st,
                   ref, noHandle)
        /\ UNCHANGED <<delivered, calls>>

WriteTo ==
    /\ Install(writeTo(St).st, ref, noHandle)
    /\ UNCHANGED <<delivered, calls>>

MakeElementInt ==
    /\ CanCall
    /\ Install(designate(makeElementInt(St, MadeName, 3), insertedId(St), Len(ref) + 1),
               Append(ref, Leaf(MadeName, BSONType.NumberInt, 3)), noHandle)
    /\ calls' = calls + 1
    /\ UNCHANGED delivered

MakeElementObject ==
    /\ CanCall
    /\ Install(designate(makeElementObject(St, MadeName), insertedId(St), Len(ref) + 1),
               Append(ref, Container(MadeName, BSONType.Object, <<>>)), noHandle)
    /\ calls' = calls + 1
    /\ UNCHANGED delivered

\* makeElement of an element of another document, which holds {c: {y: 2}}.
MakeElementOther ==
    /\ CanCall
    /\ Install(designate(makeElementOther(St, EncodeElt(Container(MadeName, BSONType.Object,
                                                                    ObjectValue))),
                         insertedId(St),
                         addTree(ref, Container(MadeName, BSONType.Object, ObjectValue)).id),
               addTree(ref, Container(MadeName, BSONType.Object, ObjectValue)).ref, noHandle)
    /\ calls' = calls + 1
    /\ UNCHANGED delivered

PushFront ==
    /\ CanCall
    /\ \E h \in Handles, e \in Handles :
        LET r == pushFront(St, h, e)
        IN /\ Install(r.st, IF r.status = OK THEN refAddChild(ref, href[h + 1], href[e + 1], TRUE)
                            ELSE ref, noHandle)
           /\ Called(r.st)
           /\ UNCHANGED delivered

PushBack ==
    /\ CanCall
    /\ \E h \in Handles, e \in Handles :
        LET r == pushBack(St, h, e)
        IN /\ Install(r.st, IF r.status = OK THEN refAddChild(ref, href[h + 1], href[e + 1], FALSE)
                            ELSE ref, noHandle)
           /\ Called(r.st)
           /\ UNCHANGED delivered

AddSiblingLeft ==
    /\ CanCall
    /\ \E h \in Handles, e \in Handles :
        LET r == addSiblingLeft(St, h, e)
        IN /\ Install(r.st, IF r.status = OK
                            THEN refAddSibling(ref, href[h + 1], href[e + 1], FALSE)
                            ELSE ref, noHandle)
           /\ Called(r.st)
           /\ UNCHANGED delivered

AddSiblingRight ==
    /\ CanCall
    /\ \E h \in Handles, e \in Handles :
        LET r == addSiblingRight(St, h, e)
        IN /\ Install(r.st, IF r.status = OK
                            THEN refAddSibling(ref, href[h + 1], href[e + 1], TRUE)
                            ELSE ref, noHandle)
           /\ Called(r.st)
           /\ UNCHANGED delivered

Remove ==
    /\ CanCall
    /\ \E h \in Handles :
        LET r == remove(St, h)
        IN /\ Install(r.st, IF r.status = OK THEN refRemove(ref, href[h + 1]) ELSE ref, noHandle)
           /\ Called(r.st)
           /\ UNCHANGED delivered

\* The reps a call has emptied: setValue leaves makeRep() in the slot of the value.
Emptied(st) ==
    {i \in Len(elements) .. (Len(st.elements) - 1) : getElementRep(st, i) = makeRep}

Rename ==
    /\ CanCall
    /\ \E h \in Handles :
        LET r == rename(St, h, NewName)
        IN /\ Install(r.st, IF r.status = OK THEN refRename(ref, href[h + 1], NewName) ELSE ref,
                      noHandle \cup Emptied(r.st))
           /\ Called(r.st)
           /\ UNCHANGED delivered

\* A setValue call that has made the element 'new' for its value.
SetValueStep(r, h, t) ==
    /\ CanCall
    /\ Called(r.st)
    /\ Install(r.st, IF r.status = OK THEN refSetValue(ref, href[h + 1], t) ELSE ref,
               noHandle \cup {insertedId(St)})
    /\ UNCHANGED delivered

SetValueInt ==
    \E h \in Handles :
          SetValueStep(setValueInt(St, h, 7), h, Leaf(<<>>, BSONType.NumberInt, 7))

SetValueDouble ==
    \E h \in Handles :
          SetValueStep(setValueDouble(St, h, 5), h, Leaf(<<>>, BSONType.NumberDouble, 5))

SetValueLong ==
    \E h \in Handles :
          SetValueStep(setValueLong(St, h, 7), h, Leaf(<<>>, BSONType.NumberLong, 7))

SetValueBool ==
    \E h \in Handles :
          SetValueStep(setValueBool(St, h, 0), h, Leaf(<<>>, BSONType.Bool, 0))

SetValueObject ==
    \E h \in Handles :
          SetValueStep(setValueObject(St, h, EncodeObj(ObjectValue)), h,
                       Container(<<>>, BSONType.Object, ObjectValue))

\* setValueBSONElement with the EOO of an empty object, which is refused before an
\* element is made, and with the element {"": 7}.
SetValueBSONElement ==
    \E h \in Handles :
          \/ /\ CanCall
             /\ Called(setValueBSONElement(St, h, EooObj, 4).st)
             /\ Install(setValueBSONElement(St, h, EooObj, 4).st, ref, noHandle)
             /\ UNCHANGED delivered
          \/ SetValueStep(setValueBSONElement(St, h, IntObj, 4), h,
                          Leaf(<<>>, BSONType.NumberInt, 7))

GetInPlaceUpdates ==
    LET g == getInPlaceUpdates(St)
    IN /\ Install(g.st, ref, noHandle)
       /\ delivered' = delivered \o g.damages
       /\ UNCHANGED calls

DisableInPlaceUpdates ==
    /\ Install(disableInPlaceUpdates(St), ref, noHandle)
    /\ UNCHANGED <<delivered, calls>>

(***************************************************************************)
(* Comparison of the elements of a document that is navigated and edited.  *)
(***************************************************************************)
InitCompare == InitValue({DocCmp}, {FALSE}) /\ InitImpl

NextCompare ==
    \/ LeftChild
    \/ RightSibling
    \/ CompareWith
    \/ MakeElementInt
    \/ Remove

SpecCompare == InitCompare /\ [][NextCompare]_vars

(***************************************************************************)
(* Navigation and serialization alone, over every input.                   *)
(***************************************************************************)
InitNav == InitValue(InputDocs, BOOLEAN) /\ InitImpl

NextNav ==
    \/ LeftChild
    \/ RightChild
    \/ HasChildren
    \/ RightSibling
    \/ WriteTo

SpecNav == InitNav /\ [][NextNav]_vars

(***************************************************************************)
(* The edits of the topology, names and values, in-place updates disabled. *)
(***************************************************************************)
Init == (InitEmpty \/ InitValue({DocAB, DocNested, DocArray}, {FALSE})) /\ InitImpl

Next ==
    \/ LeftChild
    \/ RightChild
    \/ RightSibling
    \/ WriteTo
    \/ MakeElementInt
    \/ MakeElementObject
    \/ MakeElementOther
    \/ PushFront
    \/ PushBack
    \/ AddSiblingLeft
    \/ AddSiblingRight
    \/ Remove
    \/ Rename
    \/ SetValueInt
    \/ SetValueObject
    \/ SetValueBSONElement

Spec == Init /\ [][Next]_vars

(***************************************************************************)
(* In-place updates: the setters of fixed size values and the damage log.  *)
(***************************************************************************)
InitInPlace == (InitEmpty \/ InitValue({DocAB, DocBool, DocDouble}, BOOLEAN)) /\ InitImpl

NextInPlace ==
    \/ LeftChild
    \/ MakeElementInt
    \/ PushBack
    \/ RightSibling
    \/ WriteTo
    \/ SetValueInt
    \/ SetValueDouble
    \/ SetValueBool
    \/ SetValueLong
    \/ Remove
    \/ GetInPlaceUpdates
    \/ DisableInPlaceUpdates

SpecInPlace == InitInPlace /\ [][NextInPlace]_vars

(***************************************************************************)
(* Properties.                                                             *)
(***************************************************************************)
\* The indexes of the reps of the vector.
RepIdxs == 0 .. (Len(elements) - 1)

\* C1. Round trip without edits: a document built from a well-formed object and
\* only navigated (leftChild, rightChild, rightSibling, hasChildren), however far,
\* writes exactly the bytes of that object: the same elements in the same order,
\* with the same names, types and values.
RoundTripWithoutEdits == writeTo(St).obj = input

\* C1, the case: a document with nested containers, navigated down to the second
\* level, with the root's right child determined.
RoundTripWitness ==
    /\ input = EncodeObj(DocDeep)
    /\ getElementRep(St, kRootRepIdx).child.right \in RepIdxs
    /\ \E i \in RepIdxs : /\ getElementRep(St, i).parent \notin {kRootRepIdx, kInvalidRepIdx}
                          /\ getElementRep(St, i).sibling.left # kInvalidRepIdx
    /\ writeTo(St).obj = input

\* C2. Serialization reflects every edit: after any calls of pushFront, pushBack,
\* addSiblingLeft, addSiblingRight, remove, rename and setValue*, writeTo of the root
\* emits exactly the reference document on which the same edits were made: every
\* container's children in order, with their current names and values.
SerializationReflectsEdits == writeTo(St).obj = refObj

\* The caller's side of the damage events: 'size' bytes of the source at
\* sourceOffset are copied over the target at targetOffset, event after event.
ApplyDamage(target, source, d) ==
    [k \in 1..Len(target) |->
        IF k > d.targetOffset /\ k <= d.targetOffset + d.size
        THEN source[d.sourceOffset + (k - d.targetOffset)]
        ELSE target[k]]

RECURSIVE ApplyDamages(_, _, _)
ApplyDamages(target, source, events) ==
    IF events = <<>> THEN target
    ELSE ApplyDamages(ApplyDamage(target, source, Head(events)), source, Tail(events))

\* C3. In-place patch correctness: whenever getInPlaceUpdates returns true with the
\* damage events D, copying for each event of D in order its bytes from the leaf
\* builder's object into a clone of the input object yields exactly the bytes that
\* writeTo of the root produces at that moment.  (Stated for the first call of
\* getInPlaceUpdates: no events were handed over before.)
InPlacePatchCorrect ==
    (getInPlaceUpdates(St).ok /\ delivered = <<>>)
        => ApplyDamages(input, getObject(St, kLeafObjIdx), damages) = writeTo(St).obj

\* C4. In-place mode is a one-way latch: no call enables it again, and from any
\* state disableInPlaceUpdates, every structural edit that succeeds (pushFront,
\* pushBack, addSiblingLeft, addSiblingRight, remove, rename, on attached and on
\* detached elements) and every setter that has no in-place handling leave it
\* disabled, so that every later getInPlaceUpdates returns false.
EditsDisableInPlace ==
    /\ ~getInPlaceUpdates(disableInPlaceUpdates(St)).ok
    /\ \A h \in Handles, e \in Handles :
          /\ pushFront(St, h, e).status = OK => ~getInPlaceUpdates(pushFront(St, h, e).st).ok
          /\ pushBack(St, h, e).status = OK => ~getInPlaceUpdates(pushBack(St, h, e).st).ok
          /\ addSiblingLeft(St, h, e).status = OK
                => ~getInPlaceUpdates(addSiblingLeft(St, h, e).st).ok
          /\ addSiblingRight(St, h, e).status = OK
                => ~getInPlaceUpdates(addSiblingRight(St, h, e).st).ok
    /\ \A h \in Handles :
          /\ remove(St, h).status = OK => ~getInPlaceUpdates(remove(St, h).st).ok
          /\ rename(St, h, NewName).status = OK
                => ~getInPlaceUpdates(rename(St, h, NewName).st).ok
          /\ setValueDate(St, h, 9).status = OK
                => ~getInPlaceUpdates(setValueDate(St, h, 9).st).ok
          /\ setValueObject(St, h, EncodeObj(ObjectValue)).status = OK
                => ~getInPlaceUpdates(setValueObject(St, h, EncodeObj(ObjectValue)).st).ok

InPlaceIsOneWayLatch ==
    [][/\ EditsDisableInPlace
       /\ ~getInPlaceUpdates(St).ok => ~inPlace']_vars

\* C4, the case: a document constructed with in-place updates enabled, in which a
\* made element was attached by a structural edit, with in-place updates now off.
LatchWitness ==
    /\ mode
    /\ ~getInPlaceUpdates(St).ok
    /\ \E h \in Handles : /\ getElementRep(St, h).objIdx = kLeafObjIdx
                           /\ getElementRep(St, h).parent = kRootRepIdx
                           /\ getFieldName(St, h) = MadeName

\* The condition of C5 for the element h and a replacement of the type
\* 'type': in-place mode is enabled, h is serialized, h is not in the leaf
\* builder's object, and the encoded sizes of the two elements are equal.
Eligible(h, type) ==
    /\ inPlace
    /\ getElementRep(St, h).serialized
    /\ getElementRep(St, h).objIdx # kLeafObjIdx
    /\ EltSize(getObject(St, getElementRep(St, h).objIdx), getElementRep(St, h).offset)
          = 1 + Len(getFieldName(St, h)) + 1 + FixedSize(type)

\* A call was handled in place: it recorded damage and left the mode enabled.
HandledInPlace(r) == r.st.inPlace /\ Len(r.st.damages) > Len(damages)

FixedSetter(h, type) ==
    CASE type = BSONType.NumberInt -> setValueInt(St, h, 7)
      [] type = BSONType.NumberLong -> setValueLong(St, h, 7)
      [] type = BSONType.NumberDouble -> setValueDouble(St, h, 5)
      [] type = BSONType.Bool -> setValueBool(St, h, 0)

\* C5. In-place eligibility: a successful setValueInt, setValueLong, setValueDouble
\* or setValueBool on an element that is not the root is handled in place (damage
\* recorded, in-place mode still enabled) if and only if in-place mode is enabled,
\* the element is serialized, it is not in the leaf builder's object, and its
\* encoded size equals that of the replacement; otherwise the call disables
\* in-place mode.  The other setters (setValueDate, setValueObject, setValueArray)
\* always disable it.
InPlaceEligibility ==
    \A h \in Handles \ {kRootRepIdx} :
        /\ \A type \in {BSONType.NumberInt, BSONType.NumberLong, BSONType.NumberDouble,
                        BSONType.Bool} :
              FixedSetter(h, type).status = OK
                 => /\ HandledInPlace(FixedSetter(h, type)) <=> Eligible(h, type)
                    /\ ~Eligible(h, type) => ~FixedSetter(h, type).st.inPlace
        /\ setValueDate(St, h, 9).status = OK => ~setValueDate(St, h, 9).st.inPlace
        /\ setValueObject(St, h, EncodeObj(ObjectValue)).status = OK
              => ~setValueObject(St, h, EncodeObj(ObjectValue)).st.inPlace
        /\ setValueArray(St, h, EncodeObj(ObjectValue)).status = OK
              => ~setValueArray(St, h, EncodeObj(ObjectValue)).st.inPlace

\* C5, the case: in-place mode is enabled and an int32 element of the input can
\* take a new int32 in place while a double, which is longer, would disable the
\* mode; an earlier update of another element was recorded as damage.
EligibilityWitness ==
    /\ inPlace
    /\ damages # <<>>
    /\ \E h \in Handles \ {kRootRepIdx} :
          /\ Eligible(h, BSONType.NumberInt)
          /\ HandledInPlace(setValueInt(St, h, 7))
          /\ ~Eligible(h, BSONType.NumberDouble)
          /\ ~setValueDouble(St, h, 5).st.inPlace

(***************************************************************************)
(* The topology seen by navigation: the walk over leftChild and            *)
(* rightSibling from an element, every opaque slot resolved on the way.    *)
(* It yields the state it leaves, the reps it has met, and the bytes of    *)
(* the elements met, a container being encoded from its children.          *)
(***************************************************************************)
RECURSIVE walkSiblings(_, _, _, _, _)
walkChildren(st, idx, seen, fuel) ==
    LET st1 == resolveLeftChild(st, idx)
    IN walkSiblings(st1, getElementRep(st1, idx).child.left, seen, <<>>, fuel)

walkSiblings(st, current, seen, bytes, fuel) ==
    IF current = kInvalidRepIdx \/ current \in seen \/ fuel = 0
    THEN [st |-> st, seen |-> seen, bytes |-> bytes, fuel |-> fuel]
    ELSE LET w == walkChildren(st, current, seen \cup {current}, fuel - 1)
             buf == getObject(st, getElementRep(st, current).objIdx)
             off == getElementRep(st, current).offset
             elt == <<getType(st, current)>> \o getFieldName(st, current) \o <<0>>
                       \o (IF ~isLeaf(st, current) THEN BuilderObj(w.bytes)
                           ELSE IF getElementRep(st, current).objIdx # kInvalidObjIdx
                           THEN EltValue(buf, off)
                           ELSE <<>>)
             st1 == resolveRightSibling(w.st, current)
         IN walkSiblings(st1, getElementRep(st1, current).sibling.right, w.seen,
                         bytes \o elt, w.fuel)

\* The reps reachable from the root, and the state with them resolved.
Reach == walkChildren(St, kRootRepIdx, {kRootRepIdx}, WriteFuel(St))

RECURSIVE parentChain(_, _, _)
\* The reps on the chain of parent links from i, i included, as far as n links.
parentChain(st, i, n) ==
    IF i = kInvalidRepIdx \/ n = 0 THEN {}
    ELSE {i} \cup parentChain(st, getElementRep(st, i).parent, n - 1)

RECURSIVE parentChainEnds(_, _, _)
\* The chain of parent links from i reaches kInvalidRepIdx within n links.
parentChainEnds(st, i, n) ==
    IF i = kInvalidRepIdx THEN TRUE
    ELSE IF n = 0 THEN FALSE
    ELSE parentChainEnds(st, getElementRep(st, i).parent, n - 1)

\* C6. The topology never contains a cycle: whatever attachable element is passed
\* to pushFront, pushBack, addSiblingLeft or addSiblingRight of whatever container
\* or attached element of the document, the parent links from every rep reach
\* kInvalidRepIdx after finitely many steps.
NoCycles == \A i \in RepIdxs : parentChainEnds(St, i, Len(elements))

\* C7 as the spec states it: the reps reachable from the root by leftChild and
\* rightSibling, opaque slots resolved, are exactly the reps whose parent is not
\* kInvalidRepIdx.
ReachableEqualsAttached ==
    Reach.seen \ {kRootRepIdx}
        = {i \in 0 .. (Len(Reach.st.elements) - 1) :
              getElementRep(Reach.st, i).parent # kInvalidRepIdx}

\* C7, amended: every rep reachable from the root by leftChild and rightSibling,
\* opaque slots resolved, has a parent, and its parent links lead to the root.  (A
\* rep with a parent need not be reachable: the children of a removed or never
\* attached container keep their parent.)
ReachableAreAttached ==
    \A i \in Reach.seen \ {kRootRepIdx} :
        /\ getElementRep(Reach.st, i).parent # kInvalidRepIdx
        /\ kRootRepIdx \in parentChain(Reach.st, i, Len(Reach.st.elements))

\* C7, the case: elements are reachable from the root, on two levels, while a
\* container that was removed from the document keeps a child of its own.
ReachableWitness ==
    /\ \E i \in Reach.seen : getElementRep(Reach.st, i).parent \notin {kRootRepIdx, kInvalidRepIdx}
    /\ \E i \in RepIdxs \ Reach.seen, j \in RepIdxs \ Reach.seen :
          /\ getElementRep(St, i).parent = kInvalidRepIdx
          /\ getElementRep(St, j).parent = i
          /\ getElementRep(St, i).child.left = j
    /\ NoCycles
    /\ flags = {}

\* C8. Every rep whose type is not Object or Array has both child slots
\* kInvalidRepIdx, serialized set and an object index that is not kInvalidObjIdx, and neither deserialize nor the
\* writer of an element ever meets a leaf that breaks this.
LeafInvariant ==
    /\ \A i \in RepIdxs \ noHandle :
          isLeaf(St, i) => /\ getElementRep(St, i).child.left = kInvalidRepIdx
                           /\ getElementRep(St, i).child.right = kInvalidRepIdx
                           /\ getElementRep(St, i).serialized
                           /\ getElementRep(St, i).objIdx # kInvalidObjIdx
    /\ "dassert: deserialize of a leaf" \notin flags
    /\ "verify: write of a leaf without a value" \notin writeTo(St).st.flags

\* C9, for the left child, the half that resolveLeftChild asserts: a rep whose
\* serialized is false has no kOpaqueRepIdx as its left child.
NoOpaqueChildWhenDeserialized ==
    \A i \in RepIdxs :
        ~getElementRep(St, i).serialized => getElementRep(St, i).child.left # kOpaqueRepIdx

\* The bytes of the element at rep i, encoded from what navigation finds under it.
walkElement(st, i) ==
    LET w == walkChildren(st, i, {i}, WriteFuel(st))
    IN <<getType(st, i)>> \o getFieldName(st, i) \o <<0>>
          \o (IF ~isLeaf(st, i) THEN BuilderObj(w.bytes)
              ELSE EltValue(getObject(st, getElementRep(st, i).objIdx),
                            getElementRep(st, i).offset))

\* C10. The bytes at (objIdx, offset) of a rep with serialized set encode the rep
\* as it stands, its type, its field name and its value or children; and while the
\* root has serialized set, the document under the root is the input.
SerializedBytesAreValid ==
    /\ \A i \in RepIdxs \ ({kRootRepIdx} \cup noHandle) :
          (getElementRep(St, i).serialized /\ getElementRep(St, i).objIdx # kInvalidObjIdx)
              => EltBytes(getObject(St, getElementRep(St, i).objIdx),
                          getElementRep(St, i).offset) = walkElement(St, i)
    /\ (hasInput /\ getElementRep(St, kRootRepIdx).serialized)
          => BuilderObj(walkChildren(St, kRootRepIdx, {kRootRepIdx}, WriteFuel(St)).bytes) = input

\* C11. A rep whose parent is kInvalidRepIdx has kInvalidRepIdx as its left and as
\* its right sibling, neither an index nor kOpaqueRepIdx: the elements just made,
\* the elements removed and the root.
DetachedAreClean ==
    \A i \in RepIdxs :
        getElementRep(St, i).parent = kInvalidRepIdx
            => /\ getElementRep(St, i).sibling.left = kInvalidRepIdx
               /\ getElementRep(St, i).sibling.right = kInvalidRepIdx

\* C11, the case: an element of the input was removed from a root that keeps a
\* child, and an element made by the document is still detached.
DetachedWitness ==
    /\ \E i \in RepIdxs \ {kRootRepIdx} :
          /\ getElementRep(St, i).objIdx = kInputObjIdx
          /\ getElementRep(St, i).parent = kInvalidRepIdx
          /\ getElementRep(St, kRootRepIdx).child.left \in RepIdxs
    /\ \E j \in RepIdxs \ noHandle :
          /\ getElementRep(St, j).objIdx = kLeafObjIdx
          /\ getElementRep(St, j).parent = kInvalidRepIdx

\* C12. The rep at index 0 is the root: its parent and both its siblings are
\* kInvalidRepIdx, its type is Object and its field name is empty, and it
\* designates the root of the reference document, whatever was attached, removed,
\* renamed or given a new value.
RootInvariant ==
    /\ getElementRep(St, kRootRepIdx).parent = kInvalidRepIdx
    /\ getElementRep(St, kRootRepIdx).sibling.left = kInvalidRepIdx
    /\ getElementRep(St, kRootRepIdx).sibling.right = kInvalidRepIdx
    /\ getType(St, kRootRepIdx) = BSONType.Object
    /\ getFieldName(St, kRootRepIdx) = <<>>
    /\ href[kRootRepIdx + 1] # NoNode
    /\ refParent(ref, href[kRootRepIdx + 1]) = NoNode
    /\ ref[href[kRootRepIdx + 1]].type = BSONType.Object
    /\ ref[href[kRootRepIdx + 1]].name = <<>>

\* C12, the case: two edits were made under the root of a document with an input,
\* one of them the attachment of an element the document has made.
RootWitness ==
    /\ hasInput
    /\ calls = MaxCalls
    /\ ~getElementRep(St, kRootRepIdx).serialized
    /\ \E i \in RepIdxs : /\ getElementRep(St, i).parent = kRootRepIdx
                          /\ getElementRep(St, i).objIdx # kInputObjIdx

\* The state and the reference document after the step.
StNext ==
    [elements |-> elements', leafBuf |-> leafBuf', fieldNames |-> fieldNames',
     damages |-> damages', inPlace |-> inPlace', flags |-> flags', href |-> href']

\* The node before n among the children of its parent in r, NoNode for the first.
refPrevKid(r, n) ==
    LET kids == IF refParent(r, n) = NoNode THEN <<>> ELSE r[refParent(r, n)].kids
    IN IF \E k \in 2..Len(kids) : kids[k] = n
       THEN kids[(CHOOSE k \in 2..Len(kids) : kids[k] = n) - 1]
       ELSE NoNode

\* The rep h of the state st is where the node it designates is in the reference
\* document r: the same name and type, under the rep of the node's parent, right
\* of the rep of the node's left neighbour; a detached rep for a detached node.
Designates(st, r, h) ==
    LET n == st.href[h + 1]
        rep == getElementRep(st, h)
        at(i) == IF i = kInvalidRepIdx THEN NoNode ELSE st.href[i + 1]
    IN /\ n # NoNode
       /\ h # kRootRepIdx =>
             /\ getFieldName(st, h) = r[n].name
             /\ getType(st, h) = r[n].type
             /\ at(rep.parent) = refParent(r, n)
             /\ rep.sibling.left # kOpaqueRepIdx
             /\ at(rep.sibling.left) = refPrevKid(r, n)

\* Every index in a slot of the topology is an index of the vector.
SlotsInArena(st) ==
    \A i \in 0 .. (Len(st.elements) - 1) :
        \A v \in {getElementRep(st, i).parent, getElementRep(st, i).sibling.left,
                  getElementRep(st, i).sibling.right, getElementRep(st, i).child.left,
                  getElementRep(st, i).child.right} :
            v \in {kInvalidRepIdx, kOpaqueRepIdx} \cup (0 .. (Len(st.elements) - 1))

\* The step is h.remove(), which takes the node of h out from under its parent.
RemovedByStep(h) ==
    /\ refParent(ref, href[h + 1]) # NoNode
    /\ refParent(ref', href[h + 1]) = NoNode
    /\ remove(St, h).status = OK
    /\ elements' = remove(St, h).st.elements

LeftSiblingsResolved ==
    \A i \in RepIdxs :
        /\ getElementRep(St, i).sibling.left # kOpaqueRepIdx
        /\ getElementRep(St, i).parent # kOpaqueRepIdx
        /\ leftSibling(St, i).st = St
        /\ leftSibling(St, i).current \in {kInvalidRepIdx} \cup RepIdxs

\* C14, the case: the right sibling j of an element i was resolved, the right
\* sibling of j and the children of i are still opaque.
LeftSiblingsWitness ==
    \E i \in RepIdxs, j \in RepIdxs :
        /\ leftSibling(St, j).current = i
        /\ getElementRep(St, i).sibling.right = j
        /\ getElementRep(St, j).sibling.right = kOpaqueRepIdx
        /\ getElementRep(St, i).child.left = kOpaqueRepIdx
        /\ getElementRep(St, i).child.right = kOpaqueRepIdx

\* The Elements that are not the root and have no parent and no siblings.
Attachable == {e \in Handles : canAttach(e, getElementRep(St, e))}

\* root.pushBack(e); root.pushBack(e); e.remove(); root.pushBack(e) from the state
\* of the document: the second pushBack fails with 'error' and changes nothing,
\* remove succeeds, the third pushBack succeeds and e is the right child of the
\* root again, the document being what it was after the first pushBack.
AttachLifeCycle(e, error) ==
    LET first == pushBack(St, kRootRepIdx, e)
        cycle(a) ==
            LET again(b, c) == /\ b.status = OK
                               /\ c.status = OK
                               /\ getElementRep(c.st, e).parent = kRootRepIdx
                               /\ resolveRightChild(c.st, kRootRepIdx).current = e
                               /\ writeTo(c.st).obj = writeTo(a).obj
                removed(b) == again(b, pushBack(b.st, kRootRepIdx, e))
            IN /\ pushBack(a, kRootRepIdx, e).status = error
               /\ pushBack(a, kRootRepIdx, e).st = a
               /\ removed(remove(a, e))
    IN first.status = OK => cycle(first.st)

\* C15 as the spec states it: after root.pushBack(e1) of an element just made, a
\* second root.pushBack(e1) fails with "dangling parent" and changes nothing; after
\* e1.remove(), root.pushBack(e1) succeeds and e1 is the last child again.
ReattachAfterDanglingParent ==
    \A e \in Attachable : AttachLifeCycle(e, "dangling parent")

\* C15, amended: after root.pushBack(e1) of an attachable element a second
\* root.pushBack(e1) fails and changes nothing, with "dangling left sibling" when
\* the root had children before the first pushBack (e1 then has a left sibling,
\* which getAttachmentError looks at first) and with "dangling parent" when it had
\* none; after e1.remove(), root.pushBack(e1) succeeds and e1 is the last child
\* again.
ReattachAfterRemove ==
    \A e \in Attachable :
        AttachLifeCycle(e, IF resolveRightChild(St, kRootRepIdx).current = kInvalidRepIdx
                           THEN "dangling parent"
                           ELSE "dangling left sibling")

\* C15, the case: root.pushBack(e1) has succeeded for an element made by the
\* document, the root having a child before, and the second pushBack fails.
ReattachWitness ==
    \E e \in Handles :
        /\ getElementRep(St, e).objIdx = kLeafObjIdx
        /\ getElementRep(St, e).parent = kRootRepIdx
        /\ getElementRep(St, e).sibling.left \in RepIdxs
        /\ getElementRep(St, kRootRepIdx).child.right = e
        /\ pushBack(St, kRootRepIdx, e).status = "dangling left sibling"
        /\ remove(St, e).status = OK
        /\ pushBack(remove(St, e).st, kRootRepIdx, e).status = OK

\* The results of pushFront, pushBack, addSiblingLeft and addSiblingRight of the
\* argument e on the receiver this.
Attachments(this, e) ==
    {pushFront(St, this, e), pushBack(St, this, e),
     addSiblingLeft(St, this, e), addSiblingRight(St, this, e)}

\* The error C16 names for an argument that is not attachable.
AttachmentErrorOf(e) ==
    IF getElementRep(St, e).sibling.left # kInvalidRepIdx THEN "dangling left sibling"
    ELSE IF getElementRep(St, e).sibling.right # kInvalidRepIdx THEN "dangling right sibling"
    ELSE IF getElementRep(St, e).parent # kInvalidRepIdx THEN "dangling parent"
    ELSE "cannot add the root as a child"

\* C16. pushFront, pushBack, addSiblingLeft and addSiblingRight succeed only if the
\* argument is not the root and its parent and both its siblings are
\* kInvalidRepIdx.  Otherwise they fail, whatever the receiver is, and change
\* nothing: with "dangling left sibling" if the left sibling is not kInvalidRepIdx,
\* else "dangling right sibling" if the right sibling is not (kOpaqueRepIdx
\* counts), else "dangling parent" if the parent is not, else, for the root,
\* "cannot add the root as a child".
AttachabilityErrors ==
    \A this \in Handles, e \in Handles :
        \A r \in Attachments(this, e) :
            /\ r.status = OK =>
                  /\ e # kRootRepIdx
                  /\ getElementRep(St, e).parent = kInvalidRepIdx
                  /\ getElementRep(St, e).sibling.left = kInvalidRepIdx
                  /\ getElementRep(St, e).sibling.right = kInvalidRepIdx
            /\ (e \notin Attachable) => r = Result(St, AttachmentErrorOf(e))

\* C16, the case: the document holds an element whose right sibling is still
\* opaque, an element with a left sibling, and a leaf; the root is offered as an
\* argument, and each kind of error is returned, also by a receiver that would
\* have been refused itself.
AttachabilityWitness ==
    /\ \E e \in Handles :
          /\ getElementRep(St, e).sibling.left = kInvalidRepIdx
          /\ getElementRep(St, e).sibling.right = kOpaqueRepIdx
          /\ addSiblingRight(St, kRootRepIdx, e).status = "dangling right sibling"
    /\ \E e \in Handles, this \in Handles :
          /\ isLeaf(St, this)
          /\ pushBack(St, this, e).status = "dangling left sibling"
    /\ \E this \in Handles : pushFront(St, this, kRootRepIdx).status
                                = "cannot add the root as a child"

\* C17. With an argument that can be attached, addSiblingLeft and addSiblingRight
\* on the root or on a detached element fail with "Attempt to add a sibling to an
\* element without a parent"; remove of the root or of a detached element fails
\* with "trying to remove a parentless element"; pushFront and pushBack on an
\* element that is not an object or an array fail with "Attempt to add a child
\* element to a non-object element".  The failed call changes nothing.
ReceiverErrors ==
    \A this \in Handles :
        /\ getElementRep(St, this).parent = kInvalidRepIdx =>
              /\ remove(St, this) = Result(St, "trying to remove a parentless element")
              /\ \A e \in Attachable :
                    /\ addSiblingLeft(St, this, e)
                          = Result(St, "Attempt to add a sibling to an element without a parent")
                    /\ addSiblingRight(St, this, e)
                          = Result(St, "Attempt to add a sibling to an element without a parent")
        /\ ~IsContainerType(getType(St, this)) =>
              \A e \in Attachable :
                    /\ pushFront(St, this, e)
                          = Result(St, "Attempt to add a child element to a non-object element")
                    /\ pushBack(St, this, e)
                          = Result(St, "Attempt to add a child element to a non-object element")

\* C17, the case: there is an element to attach, a leaf of the document refuses it
\* as a child, and the root and an element removed from the document refuse it as
\* a sibling and refuse to be removed.
ReceiverWitness ==
    \E e \in Attachable, leaf \in Handles, d \in Handles \ {kRootRepIdx} :
        /\ d # e
        /\ getElementRep(St, leaf).parent = kRootRepIdx
        /\ pushBack(St, leaf, e).status = "Attempt to add a child element to a non-object element"
        /\ getElementRep(St, d).objIdx = kInputObjIdx
        /\ addSiblingRight(St, d, e).status
              = "Attempt to add a sibling to an element without a parent"
        /\ addSiblingLeft(St, kRootRepIdx, e).status
              = "Attempt to add a sibling to an element without a parent"
        /\ remove(St, d).status = "trying to remove a parentless element"
        /\ remove(St, kRootRepIdx).status = "trying to remove a parentless element"

\* C18. The root and the EOO are protected: rename of the root fails with "Invalid
\* attempt to rename the root element of a document" and changes nothing; every
\* setValue call on the root fails with "Cannot call setValue on the root object" and
\* leaves every rep that was there (so every child and every link) and the root's
\* name and type as they were, and the document written too where writeTo meets
\* no failed dassert; setValueBSONElement of an EOO fails on every element with
\* "Can't set Element value to EOO" and changes nothing.
RootSetValues ==
    {setValueInt(St, kRootRepIdx, 7), setValueDouble(St, kRootRepIdx, 5),
     setValueBool(St, kRootRepIdx, 0), setValueLong(St, kRootRepIdx, 9),
     setValueDate(St, kRootRepIdx, 3),
     setValueObject(St, kRootRepIdx, EncodeObj(ObjectValue)),
     setValueArray(St, kRootRepIdx, EncodeObj(ObjectValue)),
     setValueBSONElement(St, kRootRepIdx, IntObj, 4)}

KeptBy(r) ==
    /\ SubSeq(r.st.elements, 1, Len(elements)) = elements
    /\ getFieldName(r.st, kRootRepIdx) = getFieldName(St, kRootRepIdx)
    /\ getType(r.st, kRootRepIdx) = getType(St, kRootRepIdx)
    /\ r.st.href = href \o <<NoNode>>
    /\ r.st.flags = flags
    /\ writeTo(St).st.flags = {} => writeTo(r.st).obj = writeTo(St).obj

RootAndEooProtected ==
    /\ rename(St, kRootRepIdx, NewName)
         = Result(St, "Invalid attempt to rename the root element of a document")
    /\ \A r \in RootSetValues :
          r.status = "Cannot call setValue on the root object" /\ KeptBy(r)
    /\ \A h \in Handles :
          setValueBSONElement(St, h, EooObj, 4)
            = Result(St, "Can't set Element value to EOO")

\* A setValue call on the root has been refused (the element it made for the value
\* is there, with no position), on a document that has elements beside the root.
RootProtectedWitness ==
    /\ getElementRep(St, kRootRepIdx).serialized
    /\ \E n \in noHandle :
          /\ getElementRep(St, n).objIdx = kLeafObjIdx
          /\ getElementRep(St, n).parent = kInvalidRepIdx
    /\ \E h \in Handles : h # kRootRepIdx /\ getElementRep(St, h).parent = kRootRepIdx

\* C19. Edits followed by their inverses in reverse order leave the document
\* written as it was.  The edits are pushFront or pushBack of a new element (undone
\* by its remove), remove of an element (undone by its insertion at the place it
\* had: right of its left sibling, else left of its right sibling, else as the only
\* child of its parent), rename to another name (undone by rename to the name it
\* had) and setValue of another value (undone by setValue of the value it had); the
\* sequences are those of one edit and of two edits, on every document of the
\* inputs and wherever the caller has navigated to.
NoUndo == [k |-> "none", h |-> 0, left |-> 0, right |-> 0, up |-> 0, name |-> <<>>,
           bytes |-> <<>>]

Done(r, u) == [st |-> r.st, status |-> r.status, undo |-> u]

\* The edit 'ed' = [k, h, front] on st, and what its inverse needs.  The value h
\* has is kept as the element that writeElement builds of it.
Do(st, ed) ==
    LET removed(s) ==
            Done(remove(s, ed.h),
                 [NoUndo EXCEPT !.k = "insert", !.h = ed.h,
                                !.left = getElementRep(s, ed.h).sibling.left,
                                !.right = getElementRep(s, ed.h).sibling.right,
                                !.up = getElementRep(s, ed.h).parent])
        valued(was) ==
            Done(setValueInt(was.st, ed.h, 7),
                 [NoUndo EXCEPT !.k = "set", !.h = ed.h, !.bytes = BuilderObj(was.b.buf)])
    IN CASE ed.k = "push" ->
                Done(addChild(makeElementInt(st, MadeName, 7), ed.h, insertedId(st), ed.front),
                     [NoUndo EXCEPT !.k = "remove", !.h = insertedId(st)])
         [] ed.k = "remove" -> removed(resolveRightSibling(st, ed.h))
         [] ed.k = "rename" ->
                Done(rename(st, ed.h, NewName),
                     [NoUndo EXCEPT !.k = "rename", !.h = ed.h, !.name = getFieldName(st, ed.h)])
         [] ed.k = "set" ->
                valued(writeElement(st, ed.h, newBuilder(FALSE), FALSE, <<>>, WriteFuel(st)))

Undo(st, u) ==
    CASE u.k = "remove" -> remove(st, u.h)
      [] u.k = "insert" ->
             IF u.left # kInvalidRepIdx THEN addSiblingRight(st, u.left, u.h)
             ELSE IF u.right # kInvalidRepIdx THEN addSiblingLeft(st, u.right, u.h)
             ELSE addChild(st, u.up, u.h, FALSE)
      [] u.k = "rename" -> rename(st, u.h, u.name)
      [] u.k = "set" -> setValueBSONElement(st, u.h, u.bytes, 4)

\* The edits a caller can make on st with the elements 'hs'.
EditsOf(st, hs) ==
    {[k |-> "push", h |-> h, front |-> f] : h \in {e \in hs : ~isLeaf(st, e)}, f \in BOOLEAN}
      \cup {[k |-> c, h |-> h, front |-> FALSE] :
               c \in {"remove", "rename", "set"}, h \in hs \ {kRootRepIdx}}

\* The elements of st a caller can hold: all but the emptied reps of setValue.
HandlesOf(st) ==
    {i \in 0 .. (Len(st.elements) - 1) : i = kRootRepIdx \/ getElementRep(st, i) # makeRep}

UndoneTwo(r1, r2) == Undo(Undo(r2.st, r2.undo).st, r1.undo)

RECURSIVE EltNames(_, _)
EltNames(buf, off) ==
    IF EltEoo(buf, off) THEN <<>>
    ELSE <<EltFieldName(buf, off)>> \o EltNames(buf, off + EltSize(buf, off))

RECURSIVE EltShapes(_, _)
\* The types of the elements from 'off' on, and the values of the leaves.
EltShapes(buf, off) ==
    IF EltEoo(buf, off) THEN <<>>
    ELSE <<[type |-> EltType(buf, off),
            val |-> IF IsContainerType(EltType(buf, off)) THEN <<>> ELSE EltValue(buf, off)]>>
           \o EltShapes(buf, off + EltSize(buf, off))

IndexNames(k) == [i \in 1 .. k |-> DecimalName(i - 1)]

\* The children of h as navigation finds them, under the names of their reps.
ChildrenOf(s, h) == BuilderObj(walkChildren(s, h, {h}, WriteFuel(s)).bytes)

\* 'obj' holds the children of h in sibling order under the names "0", "1", ...
EmittedByIndex(s, h, obj) ==
    /\ EltNames(obj, 4) = IndexNames(Len(EltNames(obj, 4)))
    /\ EltShapes(obj, 4) = EltShapes(ChildrenOf(s, h), 4)

\* The value of the element that writeElement appends for h to an object builder.
WrittenValue(s, h) ==
    EltValue(BuilderObj(writeElement(s, h, newBuilder(FALSE), FALSE, <<>>, WriteFuel(s)).b.buf), 4)

ArrayStates ==
    {St} \cup {setValueArray(St, h, EncodeObj(ObjectValue)).st : h \in Handles \ {kRootRepIdx}}

\* The arrays of s that are written to the end: an array that has been made a
\* child of itself is walked without end, and a verify that fails ends the program.
ArraysOf(s) ==
    {h \in HandlesOf(s) : /\ getType(s, h) = BSONType.Array
                          /\ parentChainEnds(s, h, Len(s.elements))
                          /\ writeArrayTo(s, h).st.flags = {}}

ArrayChildNames ==
    \A s \in ArrayStates : \A h \in ArraysOf(s) :
        /\ EmittedByIndex(s, h, writeArrayTo(s, h).obj)
        /\ EmittedByIndex(s, h, WrittenValue(s, h))

ArrayChildNamesWritten ==
    \A s \in ArrayStates : \A h \in ArraysOf(s) :
        /\ EmittedByIndex(s, h, writeArrayTo(s, h).obj)
        /\ IF hasValue(s, h)
           THEN WrittenValue(s, h) = EltValue(getObject(s, getElementRep(s, h).objIdx),
                                              getElementRep(s, h).offset)
           ELSE EmittedByIndex(s, h, WrittenValue(s, h))

\* An array of the document has no value any more and a child whose rep has
\* another name than its place in the array: a child added with the name "c", or a
\* child that has moved up after the one before it was removed.
ArrayNamesWitness ==
    \E h \in ArraysOf(St) :
        /\ ~hasValue(St, h)
        /\ getElementRep(St, h).parent = kRootRepIdx
        /\ EltNames(ChildrenOf(St, h), 4) # <<>>
        /\ EltNames(ChildrenOf(St, h), 4) # IndexNames(Len(EltNames(ChildrenOf(St, h), 4)))
        /\ EltNames(WrittenValue(St, h), 4) = IndexNames(Len(EltNames(ChildrenOf(St, h), 4)))

\* C21. For either value of considerFieldName, compareWithElement is a total
\* preorder on the elements of the document: an element compares equal to itself,
\* the sign of compare(a, b) is the opposite of the sign of compare(b, a), and
\* a <= b and b <= c give a <= c, whichever of them have their value and whichever
\* are containers without one.  The documents are those reached and those where a
\* detached leaf has been given the array value whose only field is named "y".
Sign(n) == IF n < 0 THEN -1 ELSE IF n > 0 THEN 1 ELSE 0

CompareTable(s, hs, considerFieldName) ==
    [p \in hs \X hs |->
        compareWithElement(s, p[1], p[2], considerFieldName, WriteFuel(s))]

TotalPreorder(hs, t) ==
    /\ \A a \in hs : t[<<a, a>>].cmp = 0
    /\ \A a \in hs, b \in hs : Sign(t[<<a, b>>].cmp) = -Sign(t[<<b, a>>].cmp)
    /\ \A a \in hs, b \in hs, c \in hs :
          (t[<<a, b>>].cmp <= 0 /\ t[<<b, c>>].cmp <= 0) => t[<<a, c>>].cmp <= 0

RECURSIVE NamedByIndex(_, _, _, _)
\* The elements of 'buf' from 'off' on, the first being the k-th of its object:
\* the elements of every array among them and under them are named by their index.
NamedByIndex(buf, off, k, array) ==
    IF EltEoo(buf, off) THEN TRUE
    ELSE /\ array => EltFieldName(buf, off) = DecimalName(k)
         /\ IsContainerType(EltType(buf, off))
               => NamedByIndex(EltValue(buf, off), 4, 0, EltType(buf, off) = BSONType.Array)
         /\ NamedByIndex(buf, off + EltSize(buf, off), k + 1, array)

CanonicalArrays(s) ==
    /\ NamedByIndex(getObject(s, kLeafObjIdx), 4, 0, FALSE)
    /\ NamedByIndex(getObject(s, kInputObjIdx), 4, 0, FALSE)

\* The elements the claim is about: those that have their value and the
\* containers that have none.
Comparable(s) == {h \in HandlesOf(s) : hasValue(s, h) \/ ~isLeaf(s, h)}

\* The document as it stands, and as it is once a leaf that is in no container
\* has been given the array value whose only field is named "y".
CompareStates ==
    {St} \cup {setValueArray(St, h, EncodeObj(ObjectValue)).st :
                  h \in {e \in Handles \ {kRootRepIdx} :
                            /\ isLeaf(St, e)
                            /\ getElementRep(St, e).parent = kInvalidRepIdx}}

ComparisonTotality ==
    \A s \in CompareStates, considerFieldName \in BOOLEAN :
        TotalPreorder(Comparable(s), CompareTable(s, Comparable(s), considerFieldName))

\* C21 for the documents in which the bytes of every array name its elements by
\* their index.
ComparisonTotalityCanonical ==
    \A s \in CompareStates, considerFieldName \in BOOLEAN :
        CanonicalArrays(s)
            => TotalPreorder(Comparable(s), CompareTable(s, Comparable(s), considerFieldName))

\* C22. Elements are made when they are first come to.  While the left child of
\* the root of a document made from an input is opaque, the arena holds the root
\* alone, its right child opaque too.  A leftChild or rightSibling call appends at
\* most one rep and changes no rep but the slot it resolves; the rep it appends has
\* serialized set, the objIdx of the element it was resolved from, its place (the
\* parent and the left sibling), kOpaqueRepIdx as its right sibling and, if it is an
\* object or an array, as both its children, else no children.  For the input
\* {xs: {x, X}, ys: {y}}, root.leftChild() leaves the root and xs in the arena, with
\* the left child of xs and the right child of the root opaque.
MadeBy(s, from, parent, left) ==
    Len(s.elements) = Len(elements) + 1
        => /\ getElementRep(s, insertedId(St)).serialized
           /\ getElementRep(s, insertedId(St)).objIdx = getElementRep(St, from).objIdx
           /\ getElementRep(s, insertedId(St)).parent = parent
           /\ getElementRep(s, insertedId(St)).sibling.left = left
           /\ getElementRep(s, insertedId(St)).sibling.right = kOpaqueRepIdx
           /\ getElementRep(s, insertedId(St)).child.left
                 = (IF isLeaf(s, insertedId(St)) THEN kInvalidRepIdx ELSE kOpaqueRepIdx)
           /\ getElementRep(s, insertedId(St)).child.right
                 = (IF isLeaf(s, insertedId(St)) THEN kInvalidRepIdx ELSE kOpaqueRepIdx)

AppendsAtMostOne(s) ==
    /\ Len(s.elements) \in {Len(elements), Len(elements) + 1}
    /\ s.leafBuf = leafBuf
    /\ s.fieldNames = fieldNames

LazyMaterialization ==
    /\ (hasInput /\ getElementRep(St, kRootRepIdx).child.left = kOpaqueRepIdx)
          => /\ Len(elements) = 1
             /\ getElementRep(St, kRootRepIdx).child.right = kOpaqueRepIdx
             /\ getElementRep(St, kRootRepIdx).serialized
    /\ \A h \in Handles :
          /\ AppendsAtMostOne(resolveLeftChild(St, h))
          /\ MadeBy(resolveLeftChild(St, h), h, h, kInvalidRepIdx)
          /\ \A i \in RepIdxs \ {h} :
                getElementRep(resolveLeftChild(St, h), i) = getElementRep(St, i)
          /\ [getElementRep(resolveLeftChild(St, h), h) EXCEPT !.child = getElementRep(St, h).child]
                = getElementRep(St, h)
          /\ AppendsAtMostOne(resolveRightSibling(St, h))
          /\ MadeBy(resolveRightSibling(St, h), h, getElementRep(St, h).parent, h)
          /\ \A i \in RepIdxs \ {h, getElementRep(St, h).parent} :
                getElementRep(resolveRightSibling(St, h), i) = getElementRep(St, i)
    /\ (input = EncodeObj(DocXs) /\ getElementRep(St, kRootRepIdx).child.left = kOpaqueRepIdx)
          => LET s == resolveLeftChild(St, kRootRepIdx)
             IN /\ Len(s.elements) = 2
                /\ getFieldName(s, 1) = <<120, 115>>
                /\ getElementRep(s, kRootRepIdx).child.left = 1
                /\ getElementRep(s, kRootRepIdx).child.right = kOpaqueRepIdx
                /\ getElementRep(s, 1).child.left = kOpaqueRepIdx
                /\ getElementRep(s, 1).sibling.right = kOpaqueRepIdx

\* root.leftChild() has been called on the document made from {xs: {x, X},
\* ys: {y}}, and nothing else: the arena holds the root and xs.
LazyWitness ==
    /\ input = EncodeObj(DocXs)
    /\ Len(elements) = 2
    /\ getFieldName(St, 1) = <<120, 115>>
    /\ getElementRep(St, 1).child.left = kOpaqueRepIdx
    /\ getElementRep(St, kRootRepIdx).child.right = kOpaqueRepIdx

\* C23. The end of a list of children is found by rightSibling.  Called on an
\* element whose right sibling is opaque and that is the last of the bytes of its
\* parent, it finds no sibling (the handle returned is not ok), makes
\* kInvalidRepIdx the right sibling of the element and the element the right child
\* of its parent.  So rightChild of an element whose right child is opaque returns
\* the last element of the chain from the left child over the right siblings
\* (kInvalidRepIdx if there is no child), the right child of the element is the
\* index returned, and no element of the chain has an opaque right sibling; an
\* element none of whose children had been made has as many elements on the chain
\* as its bytes have.
RECURSIVE ChainFrom(_, _, _)
ChainFrom(s, c, fuel) ==
    IF c \in {kInvalidRepIdx, kOpaqueRepIdx} \/ fuel = 0 THEN <<>>
    ELSE <<c>> \o ChainFrom(s, getElementRep(s, c).sibling.right, fuel - 1)

ChildChain(s, p) == ChainFrom(s, getElementRep(s, p).child.left, Len(s.elements))

RECURSIVE EltCount(_, _)
EltCount(buf, off) == IF EltEoo(buf, off) THEN 0 ELSE 1 + EltCount(buf, off + EltSize(buf, off))

IsLastOfBytes(s, i) ==
    /\ getElementRep(s, i).sibling.right = kOpaqueRepIdx
    /\ getElementRep(s, i).parent # kInvalidRepIdx
    /\ EltEoo(getObject(s, getElementRep(s, i).objIdx),
              getElementRep(s, i).offset
                + EltSize(getObject(s, getElementRep(s, i).objIdx), getElementRep(s, i).offset))

RightChildFound(p, r) ==
    /\ r.current = (IF ChildChain(r.st, p) = <<>> THEN kInvalidRepIdx
                    ELSE ChildChain(r.st, p)[Len(ChildChain(r.st, p))])
    /\ getElementRep(r.st, p).child.right = r.current
    /\ r.current # kInvalidRepIdx => getElementRep(r.st, r.current).sibling.right = kInvalidRepIdx
    /\ \A k \in 1..Len(ChildChain(r.st, p)) :
          getElementRep(r.st, ChildChain(r.st, p)[k]).sibling.right # kOpaqueRepIdx
    /\ (getElementRep(St, p).child.left = kOpaqueRepIdx /\ getElementRep(St, p).serialized)
          => Len(ChildChain(r.st, p))
               = EltCount(getObject(St, getElementRep(St, p).objIdx),
                          IF hasValue(St, p)
                          THEN EltValueOffset(getObject(St, getElementRep(St, p).objIdx),
                                              getElementRep(St, p).offset) + 4
                          ELSE 4)

EndOfListInstallsRightChild ==
    /\ \A i \in Handles :
          IsLastOfBytes(St, i)
              => /\ getElementRep(resolveRightSibling(St, i), i).sibling.right = kInvalidRepIdx
                 /\ getElementRep(resolveRightSibling(St, i),
                                  getElementRep(St, i).parent).child.right = i
                 /\ Len(resolveRightSibling(St, i).elements) = Len(elements)
    /\ \A p \in Handles :
          getElementRep(St, p).child.right = kOpaqueRepIdx
              => RightChildFound(p, resolveRightChild(St, p))

\* rightSibling has found the end of a list of two or more children: the last
\* child has no right sibling and is the right child of its parent, whose
\* left child is another element.
EndOfListWitness ==
    \E i \in Handles :
        /\ getElementRep(St, i).sibling.right = kInvalidRepIdx
        /\ getElementRep(St, i).sibling.left \in Handles
        /\ getElementRep(St, i).serialized
        /\ getElementRep(St, i).parent \in Handles
        /\ getElementRep(St, getElementRep(St, i).parent).child.right = i
        /\ getElementRep(St, getElementRep(St, i).parent).child.left # i

\* C24. The damage of an update in place.  A setValueInt, setValueLong,
\* setValueDouble or setValueBool that is handled in place appends to the log one
\* event, of the size of the value, if the element keeps its type, and two events
\* if the type changes: first the type byte (the offset of the element, the offset
\* of its replacement in the leaf builder, size 1), then the value.  The events
\* recorded before stay.  setValueInt(99) on the int a of {a: 1, b: 2} appends one
\* event of 4 bytes, setValueLong on the double d of {d: 1.5} two, of 1 and 8 bytes.
FixedTypes == {BSONType.NumberInt, BSONType.NumberLong, BSONType.NumberDouble, BSONType.Bool}

DamageAppended(r, h, type) ==
    /\ SubSeq(r.st.damages, 1, Len(damages)) = damages
    /\ Len(r.st.damages) = Len(damages) + (IF type = getType(St, h) THEN 1 ELSE 2)
    /\ r.st.damages[Len(r.st.damages)].size = FixedSize(type)
    /\ type # getType(St, h)
          => r.st.damages[Len(damages) + 1]
               = [targetOffset |-> getElementRep(St, h).offset,
                  sourceOffset |-> getElementRep(r.st, h).offset,
                  size |-> 1]

DamagePerUpdate ==
    \A h \in Handles \ {kRootRepIdx} :
        /\ \A type \in FixedTypes :
              (Eligible(h, type) /\ FixedSetter(h, type).status = OK)
                  => DamageAppended(FixedSetter(h, type), h, type)
        /\ (input = EncodeObj(DocAB) /\ Eligible(h, BSONType.NumberInt))
              => /\ Len(setValueInt(St, h, 99).st.damages) = Len(damages) + 1
                 /\ setValueInt(St, h, 99).st.damages[Len(damages) + 1].size = 4
        /\ (input = EncodeObj(DocDouble) /\ Eligible(h, BSONType.NumberLong))
              => /\ Len(setValueLong(St, h, 7).st.damages) = Len(damages) + 2
                 /\ setValueLong(St, h, 7).st.damages[Len(damages) + 1].size = 1
                 /\ setValueLong(St, h, 7).st.damages[Len(damages) + 2].size = 8

\* setValueLong has replaced the double of {d: 1.5} in place, which left the two
\* events of a change of type in the log.
DamagePerUpdateWitness ==
    /\ input = EncodeObj(DocDouble)
    /\ inPlace
    /\ Len(damages) = 2
    /\ damages[1].size = 1
    /\ damages[2].size = 8
    /\ \E h \in Handles : getType(St, h) = BSONType.NumberLong

\* C25. getInPlaceUpdates hands the log over and empties it.  While in-place mode
\* is enabled it returns true with the object of the leaf builder as the source
\* and with the events of the log, and leaves the log empty and the rest of the
\* document as it was, so that a second call right after it returns true and no
\* event; the events handed over so far followed by those of the log are the
\* events of the updates done in place, one value event for every element of the
\* document that is now in the leaf builder, in the order of the updates (where
\* no dassert of the code has failed: a stale Element of a replaced object is
\* updated in place inside the bytes of its former parent).  When
\* the mode is disabled (a document made with kInPlaceDisabled or without a value,
\* or after an event that disabled it) the call returns false, no event and the
\* NULL source, and the log is empty: what was recorded before is discarded.
Recorded == delivered \o damages

UpdatedInPlace ==
    {h \in Handles \ {kRootRepIdx} :
        /\ getElementRep(St, h).serialized
        /\ getElementRep(St, h).objIdx = kLeafObjIdx
        /\ getElementRep(St, h).parent # kInvalidRepIdx}

ValueEventOf(h) ==
    [sourceOffset |-> EltValueOffset(getObject(St, kLeafObjIdx), getElementRep(St, h).offset),
     size |-> EltValueSize(getObject(St, kLeafObjIdx), getElementRep(St, h).offset)]

InPlaceUpdatesHandOver ==
    /\ inPlace
          => /\ getInPlaceUpdates(St).ok
             /\ getInPlaceUpdates(St).damages = damages
             /\ getInPlaceUpdates(St).source = getObject(St, kLeafObjIdx)
             /\ getInPlaceUpdates(St).st = [St EXCEPT !.damages = <<>>]
             /\ getInPlaceUpdates(getInPlaceUpdates(St).st).ok
             /\ getInPlaceUpdates(getInPlaceUpdates(St).st).damages = <<>>
    /\ (inPlace /\ flags = {})
          => /\ \A h \in UpdatedInPlace :
                   \E k \in 1..Len(Recorded) :
                       /\ Recorded[k].sourceOffset = ValueEventOf(h).sourceOffset
                       /\ Recorded[k].size = ValueEventOf(h).size
             /\ \A k \in 1..Len(Recorded) :
                   /\ \E h \in UpdatedInPlace :
                         /\ getElementRep(St, h).offset <= Recorded[k].sourceOffset
                         /\ Recorded[k].sourceOffset <= ValueEventOf(h).sourceOffset
                   /\ \A j \in 1..(k - 1) : Recorded[j].sourceOffset < Recorded[k].sourceOffset
    /\ ~inPlace
          => /\ ~getInPlaceUpdates(St).ok
             /\ getInPlaceUpdates(St).damages = <<>>
             /\ getInPlaceUpdates(St).source = <<>>
             /\ getInPlaceUpdates(St).st = St
             /\ damages = <<>>
    /\ ~mode => ~inPlace

\* getInPlaceUpdates has handed over the event of one update, and the log holds
\* the event of an update done after that call.
HandOverWitness ==
    /\ inPlace
    /\ delivered # <<>>
    /\ damages # <<>>

\* C26. The offsets of the damage.  For an update in place of the element t (at
\* offset t of the input, its name L bytes long) by the element n made in the
\* leaf builder, the value event is (t + 1 + L + 1, n + 1 + L + 1, size of the
\* value).  The target range of every event of the update lies inside the bytes of
\* t in the input, the object 1, and holds no byte of the field name or of its
\* terminator; the source range lies inside the bytes of n in the object of the
\* leaf builder, the object 0.  No rep has an objIdx other than 0, 1 and
\* kInvalidObjIdx.
NewEvents(r) == {r.st.damages[k] : k \in (Len(damages) + 1)..Len(r.st.damages)}

DamageInside(r, h) ==
    LET t == getElementRep(St, h).offset
        n == getElementRep(r.st, h).offset
        L == Len(getFieldName(St, h))
    IN /\ getElementRep(St, h).objIdx = kInputObjIdx
       /\ getElementRep(r.st, h).objIdx = kLeafObjIdx
       /\ r.st.damages[Len(r.st.damages)]
             = [targetOffset |-> t + 1 + L + 1, sourceOffset |-> n + 1 + L + 1,
                size |-> EltValueSize(input, t)]
       /\ \A e \in NewEvents(r) :
             /\ e.size > 0
             /\ t <= e.targetOffset
             /\ e.targetOffset + e.size <= t + EltSize(input, t)
             /\ t + EltSize(input, t) < Len(input)
             /\ e.targetOffset + e.size <= t + 1 \/ t + 1 + L + 1 <= e.targetOffset
             /\ n <= e.sourceOffset
             /\ e.sourceOffset + e.size <= n + EltSize(getObject(r.st, kLeafObjIdx), n)
             /\ n + EltSize(getObject(r.st, kLeafObjIdx), n) < Len(getObject(r.st, kLeafObjIdx))

DamageOffsets ==
    /\ \A i \in RepIdxs :
          getElementRep(St, i).objIdx \in {kLeafObjIdx, kInputObjIdx, kInvalidObjIdx}
    /\ \A h \in Handles \ {kRootRepIdx}, type \in FixedTypes :
          (Eligible(h, type) /\ FixedSetter(h, type).status = OK)
              => DamageInside(FixedSetter(h, type), h)

\* The second element of the input has been updated in place: its value event
\* has a target further into the input than its source is into the leaf builder.
DamageOffsetsWitness ==
    /\ inPlace
    /\ \E k \in 1..Len(damages) : damages[k].targetOffset > damages[k].sourceOffset

\* C27. An element is updated in place once.  After an update in place the
\* element is in the leaf builder (objIdx = kLeafObjIdx); a setValueInt,
\* setValueLong, setValueDouble or setValueBool that follows on the same element,
\* of the same size or not, succeeds, gives the element its new type and value,
\* records no damage and disables in-place mode, the log being dropped.  Until
\* then every other element that could be updated in place before the first
\* update and is still serialized can still be; the first update has left
\* serialized all of them but the objects the updated element is inside.
SecondAttempt(s, h) ==
    \A type \in FixedTypes :
        /\ setValueFixed(s, h, type, 7).status = OK
        /\ ~setValueFixed(s, h, type, 7).st.inPlace
        /\ setValueFixed(s, h, type, 7).st.damages = <<>>
        /\ ~getInPlaceUpdates(setValueFixed(s, h, type, 7).st).ok
        /\ getType(setValueFixed(s, h, type, 7).st, h) = type
        /\ EltValue(getObject(setValueFixed(s, h, type, 7).st, kLeafObjIdx),
                    getElementRep(setValueFixed(s, h, type, 7).st, h).offset)
              = Payload(FixedSize(type), 7)

OthersStillEligible(s, h) ==
    \A g \in Handles \ {kRootRepIdx, h}, type \in FixedTypes :
        Eligible(g, type)
            => /\ setValueFixed(s, g, type, 7).status = OK
               /\ getElementRep(s, g).serialized <=> g \notin parentChain(St, h, Len(elements))
               /\ setValueFixed(s, g, type, 7).st.inPlace <=> getElementRep(s, g).serialized
               /\ getElementRep(s, g).serialized
                     => Len(setValueFixed(s, g, type, 7).st.damages) > Len(s.damages)

SecondInPlaceAttemptRejected ==
    \A h \in Handles \ {kRootRepIdx}, type \in FixedTypes :
        (Eligible(h, type) /\ FixedSetter(h, type).status = OK)
            => /\ getElementRep(FixedSetter(h, type).st, h).objIdx = kLeafObjIdx
               /\ FixedSetter(h, type).st.inPlace
               /\ SecondAttempt(FixedSetter(h, type).st, h)
               /\ OthersStillEligible(FixedSetter(h, type).st, h)

\* An element was updated in place, the event was handed over, and a second
\* value of the same size was set on the same element: the leaf builder holds both
\* replacements, the element is the second, and in-place mode is disabled.
SecondAttemptWitness ==
    /\ mode
    /\ ~inPlace
    /\ delivered # <<>>
    /\ \E h \in Handles \ {kRootRepIdx} :
          /\ getElementRep(St, h).objIdx = kLeafObjIdx
          /\ getElementRep(St, h).serialized
          /\ getElementRep(St, h).parent # kInvalidRepIdx
          /\ getElementRep(St, h).offset > 4
          /\ EltBytes(getObject(St, kLeafObjIdx), 4)
                = EltBytes(getObject(St, kLeafObjIdx), getElementRep(St, h).offset)

\* C28. setValue keeps the element where it is.  A successful setValueInt,
\* setValueLong, setValueDouble, setValueBool, setValueDate, setValueObject or
\* setValueArray on an element that is not the root, in place or not, leaves the
\* element at its index with its parent, its left sibling and its right sibling
\* (the one rightSibling resolves, if it was opaque), changes no parent, sibling
\* or child slot of another rep beyond what resolving that right sibling does,
\* gives the element the type and the value set, and leaves no element on the
\* chain of its parents serialized.  (Stated of the documents in which no dassert
\* has failed and the element is not among its own parents.)
Topology(s, i) ==
    [parent |-> getElementRep(s, i).parent, sibling |-> getElementRep(s, i).sibling,
     child |-> getElementRep(s, i).child]

ValueOf(s, h) ==
    EltValue(getObject(s, getElementRep(s, h).objIdx), getElementRep(s, h).offset)

KeptInPlace(r, h, type, value) ==
    (/\ r.status = OK
     /\ flags = {}
     /\ h \notin parentChain(St, getElementRep(St, h).parent, Len(elements)))
        => /\ getElementRep(r.st, h).parent = getElementRep(St, h).parent
           /\ getElementRep(r.st, h).sibling.left = getElementRep(St, h).sibling.left
           /\ getElementRep(St, h).sibling.right # kOpaqueRepIdx
                 => getElementRep(r.st, h).sibling.right = getElementRep(St, h).sibling.right
           /\ getElementRep(St, h).sibling.right = kOpaqueRepIdx
                 => IF getElementRep(resolveRightSibling(St, h), h).sibling.right = kInvalidRepIdx
                    THEN getElementRep(r.st, h).sibling.right = kInvalidRepIdx
                    ELSE /\ getElementRep(r.st, h).sibling.right
                               \in Len(elements) .. (Len(r.st.elements) - 1)
                         /\ getElementRep(r.st, getElementRep(r.st, h).sibling.right)
                               = getElementRep(resolveRightSibling(St, h), Len(elements))
           /\ \A i \in RepIdxs \ {h} :
                 Topology(r.st, i) = Topology(resolveRightSibling(St, h), i)
           /\ \A i \in RepIdxs \ {h, getElementRep(St, h).parent} :
                 Topology(r.st, i) = Topology(St, i)
           /\ getElementRep(r.st, h).serialized
           /\ getType(r.st, h) = type
           /\ ValueOf(r.st, h) = value
           /\ \A a \in parentChain(St, getElementRep(St, h).parent, Len(elements)) :
                 ~getElementRep(r.st, a).serialized

RealIdxs(s) == 0 .. (Len(s.elements) - 1)

LinkedSiblings(s, n) ==
    getElementRep(s, n).sibling.right \in RealIdxs(s)
        => /\ getElementRep(s, getElementRep(s, n).sibling.right).sibling.left = n
           /\ getElementRep(s, getElementRep(s, n).sibling.right).parent
                 = getElementRep(s, n).parent

LinkedChildren(s, p) ==
    /\ getElementRep(s, p).child.left \in RealIdxs(s)
          => /\ getElementRep(s, getElementRep(s, p).child.left).parent = p
             /\ getElementRep(s, getElementRep(s, p).child.left).sibling.left = kInvalidRepIdx
    /\ getElementRep(s, p).child.right \in RealIdxs(s)
          => /\ getElementRep(s, getElementRep(s, p).child.right).parent = p
             /\ getElementRep(s, getElementRep(s, p).child.right).sibling.right = kInvalidRepIdx
    /\ getElementRep(s, p).child.left = kInvalidRepIdx
          => getElementRep(s, p).child.right = kInvalidRepIdx

OnChainOfParent(s, n) ==
    getElementRep(s, n).parent \in RealIdxs(s)
        => \E k \in 1..Len(ChildChain(s, getElementRep(s, n).parent)) :
               ChildChain(s, getElementRep(s, n).parent)[k] = n

ConsistentLists(s) ==
    \A n \in RealIdxs(s) :
        LinkedSiblings(s, n) /\ LinkedChildren(s, n) /\ OnChainOfParent(s, n)

\* C29. rename changes the name alone.  A rename of an element that is not the
\* root (a leaf, an object or array of the bytes with its children opaque or
\* made, an object made without a value) returns OK and leaves the element at its
\* index with its parent, its siblings (the right one resolved, if it was
\* opaque), its type and its children, as navigation finds them, in their order
\* with their names and values; the reps of its children keep their slots.
\* Afterwards getFieldName is the new name, writeElement writes the value it
\* wrote before under the new name, and in-place mode is disabled.
WrittenElt(s, h) == writeElement(s, h, newBuilder(FALSE), FALSE, <<>>, WriteFuel(s))

\* The children made before, 'chain', are the first of the children after, with
\* their reps as they were.
KeepsChain(after, s, chain, chainAfter) ==
    /\ SubSeq(chainAfter, 1, Len(chain)) = chain
    /\ \A k \in 1..Len(chain) : getElementRep(after, chain[k]) = getElementRep(s, chain[k])

\* What writeElement writes after the rename, 'w', and what it wrote before.
WrittenAs(w, before, type, sameValue) ==
    /\ w.st.flags = {}
    /\ EltFieldName(BuilderObj(w.b.buf), 4) = NewName
    /\ EltType(BuilderObj(w.b.buf), 4) = type
    /\ sameValue => EltValue(BuilderObj(w.b.buf), 4) = EltValue(BuilderObj(before.b.buf), 4)

RenamedAs(s, r, h, sameValue) ==
    /\ r.status = OK
    /\ ~r.st.inPlace
    /\ ~getInPlaceUpdates(r.st).ok
    /\ getElementRep(r.st, h).parent = getElementRep(s, h).parent
    /\ getElementRep(r.st, h).sibling.left = getElementRep(s, h).sibling.left
    /\ getElementRep(s, h).sibling.right # kOpaqueRepIdx
          => getElementRep(r.st, h).sibling.right = getElementRep(s, h).sibling.right
    /\ getElementRep(s, h).sibling.right = kOpaqueRepIdx
          => IF getElementRep(resolveRightSibling(s, h), h).sibling.right = kInvalidRepIdx
             THEN getElementRep(r.st, h).sibling.right = kInvalidRepIdx
             ELSE /\ getElementRep(r.st, h).sibling.right
                        \in Len(s.elements) .. (Len(r.st.elements) - 1)
                  /\ getElementRep(r.st, getElementRep(r.st, h).sibling.right)
                        = getElementRep(resolveRightSibling(s, h), Len(s.elements))
    /\ getType(r.st, h) = getType(s, h)
    /\ getFieldName(r.st, h) = NewName
    /\ KeepsChain(r.st, s, ChildChain(s, h), ChildChain(r.st, h))
    /\ ChildrenOf(r.st, h) = ChildrenOf(s, h)
    /\ WrittenAs(WrittenElt(r.st, h), WrittenElt(s, h), getType(s, h), sameValue)

\* The elements of s that are renamed: the element is not among its own
\* parents and is written to the end.  Renamable are those whose children, if
\* the element is a serialized object, are those of its bytes: an object copied
\* from another document has children in its bytes alone.  A sound document is
\* one in which no dassert has failed and the sibling lists are consistent (no
\* rep is left of the children that a replaced object had, none of them has
\* been taken for a last child).
Renamed(s) ==
    {h \in HandlesOf(s) \ {kRootRepIdx} :
        /\ parentChainEnds(s, h, Len(s.elements))
        /\ WrittenElt(s, h).st.flags = {}}

Renamable(s) ==
    {h \in Renamed(s) : (hasValue(s, h) /\ ~isLeaf(s, h)) => ChildrenOf(s, h) = ValueOf(s, h)}

\* The documents of the property: the document as it is and as setValueArray of
\* {y: 2} on one of the children of the root leaves it, if sound.
RenameStates ==
    {s \in {St} \cup {setValueArray(St, h, EncodeObj(ObjectValue)).st :
                         h \in {i \in Handles : getElementRep(St, i).parent = kRootRepIdx}} :
        /\ s.flags = {}
        /\ ConsistentLists(s)
        /\ \A p \in RealIdxs(s) : getElementRep(s, p).child.right = kInvalidRepIdx
                                      => getElementRep(s, p).child.left = kInvalidRepIdx}

RenameChangesOnlyName ==
    \A s \in RenameStates : \A h \in Renamed(s) :
        RenamedAs(s, rename(s, h, NewName), h, TRUE)

\* C29 for the elements whose children are those of their bytes, with the value of
\* an array taken as the sequence of the types and values of its elements: rename
\* leaves everything but the name as above, writeElement
\* writes the value it wrote before for an element that is not an array, and for
\* an array it writes the elements written before, in their order, under the
\* names "0", "1", ... whatever their names in the bytes of the array were.
WrittenByIndex(s, h, written, before) ==
    /\ EmittedByIndex(s, h, written)
    /\ EltShapes(written, 4) = EltShapes(before, 4)

RenamedWritten(s, r, h) ==
    /\ RenamedAs(s, r, h, getType(s, h) # BSONType.Array)
    /\ getType(s, h) = BSONType.Array
          => WrittenByIndex(r.st, h, WrittenValue(r.st, h), WrittenValue(s, h))

RenameChangesOnlyNameWritten ==
    \A s \in RenameStates : \A h \in Renamable(s) :
        RenamedWritten(s, rename(s, h, NewName), h)

\* The parent of n is the root, an object or an array.
ParentIsContainer(s, n) ==
    /\ getElementRep(s, n).parent \in RealIdxs(s)
    /\ \/ getElementRep(s, n).parent = kRootRepIdx
       \/ /\ getElementRep(s, getElementRep(s, n).parent) # makeRep
          /\ IsContainerType(getType(s, getElementRep(s, n).parent))

\* C30. Sibling lists stay consistent doubly linked lists: in every reachable
\* state a rep n with a real right sibling r is the left sibling of r and has the
\* parent of r; a real left child of a container p has parent p and no left
\* sibling, a real right child of p has parent p and no right sibling, p without
\* a left child has no right child, and every rep whose parent is the container p
\* is on the chain of right siblings that starts at the left child of p.
SiblingListsConsistent ==
    \A n \in RepIdxs :
        /\ LinkedSiblings(St, n)
        /\ LinkedChildren(St, n)
        /\ ParentIsContainer(St, n) => OnChainOfParent(St, n)

\* resolveRightSibling of i would read the bytes behind the element of i and find
\* the EOO that ends the object.
FindsEndOfObject(s, i) ==
    /\ getElementRep(s, i).sibling.right = kOpaqueRepIdx
    /\ getElementRep(s, i).objIdx # kInvalidObjIdx
    /\ EltEoo(getObject(s, getElementRep(s, i).objIdx),
              getElementRep(s, i).offset
                + EltSize(getObject(s, getElementRep(s, i).objIdx), getElementRep(s, i).offset))

\* C31. The assertions at the end of a list: in every reachable state, every rep
\* whose right sibling is opaque and whose resolution would find the end of the
\* object has a parent that is a rep of the vector, and the right child of that
\* parent is opaque, whatever edits were made to the parent or its ancestors.
EndOfListParentOpaque ==
    \A i \in RepIdxs :
        FindsEndOfObject(St, i)
            => /\ getElementRep(St, i).parent \in RepIdxs
               /\ getElementRep(St, getElementRep(St, i).parent).child.right = kOpaqueRepIdx

\* The rep i has an opaque right sibling and (objIdx, offset) locates bytes: those
\* of the element the rep was made from, with the type, the name and, for a
\* leaf, the value of the node the rep designates.
LocatesElement(s, i) ==
    /\ getElementRep(s, i).objIdx # kInvalidObjIdx
    /\ s.href[i + 1] # NoNode
    /\ EltType(getObject(s, getElementRep(s, i).objIdx), getElementRep(s, i).offset)
          = ref[s.href[i + 1]].type
    /\ EltFieldName(getObject(s, getElementRep(s, i).objIdx), getElementRep(s, i).offset)
          = ref[s.href[i + 1]].name
    /\ ~IsContainerType(ref[s.href[i + 1]].type)
          => EltValue(getObject(s, getElementRep(s, i).objIdx), getElementRep(s, i).offset)
                = ref[s.href[i + 1]].val

\* resolveRightSibling of i, whose right sibling is opaque, fails no dassert and
\* yields the element that follows i in the document: a new rep that designates
\* the node next to the node of i, or kInvalidRepIdx for the last child.
ResolvesToNext(s, r, i) ==
    /\ r.flags = s.flags
    /\ IF Len(r.elements) > Len(s.elements)
       THEN /\ getElementRep(r, i).sibling.right = insertedId(s)
            /\ Designates(r, ref, insertedId(s))
       ELSE /\ getElementRep(r, i).sibling.right = kInvalidRepIdx
            /\ nextKid(s.href[i + 1]) = NoNode

\* resolveLeftChild of p, whose left child is opaque, fails no dassert and yields
\* the first element embedded in p: a new rep that designates the first child of
\* the node of p, or kInvalidRepIdx for a container without children.
ResolvesToFirst(s, r, p) ==
    /\ r.flags = s.flags
    /\ IF Len(r.elements) > Len(s.elements)
       THEN /\ getElementRep(r, p).child.left = insertedId(s)
            /\ Designates(r, ref, insertedId(s))
       ELSE /\ getElementRep(r, p).child.left = kInvalidRepIdx
            /\ firstKid(s.href[p + 1]) = NoNode

OpaqueResolvable(s, i) ==
    /\ getElementRep(s, i).child.left = kOpaqueRepIdx
          => /\ getElementRep(s, i).serialized
             /\ ResolvesToFirst(s, resolveLeftChild(s, i), i)
    /\ getElementRep(s, i).sibling.right = kOpaqueRepIdx
          => /\ LocatesElement(s, i)
             /\ ResolvesToNext(s, resolveRightSibling(s, i), i)

\* C32. Opaque slots are always resolvable: in every reachable state a rep whose
\* left child is opaque has serialized set, a rep whose right sibling is opaque has
\* an object index other than kInvalidObjIdx and (objIdx, offset) locates the
\* element the rep was made from, and resolving the slot yields the element
\* embedded first in, respectively following, those bytes, which is the first
\* child, respectively the next sibling, in the document.
OpaqueSlotsResolvable == \A i \in RepIdxs \ noHandle : OpaqueResolvable(St, i)

\* The container i, attached and with serialized cleared, has a parent with
\* serialized cleared.
UpwardClosed(s, i) ==
    (/\ getElementRep(s, i).parent \in RealIdxs(s)
     /\ getElementRep(s, i) # makeRep
     /\ ~isLeaf(s, i)
     /\ ~getElementRep(s, i).serialized)
        => ~getElementRep(s, getElementRep(s, i).parent).serialized

\* The state, and the states that setValueObject of an element makes of it.
DirtyStates ==
    {St} \cup {setValueObject(St, h, EncodeObj(ObjectValue)).st : h \in Handles \ {kRootRepIdx}}

\* C33. Dirtiness is upward closed: in every reachable state, an attached
\* container with serialized cleared has a parent with serialized cleared, and so
\* on up to the root, so that deserialize may stop at the first ancestor it finds
\* with serialized cleared.
DirtinessUpwardClosed == \A s \in DirtyStates : \A i \in RealIdxs(s) : UpwardClosed(s, i)

\* What the setters, rename, remove and the four attachments return when applied
\* to the elements of s, each with the state it leaves.
EditResults(s, hs) ==
    {addChild(s, h, e, f) : h \in hs, e \in hs, f \in BOOLEAN}
      \cup {addSiblingLeft(s, h, e) : h \in hs, e \in hs}
      \cup {addSiblingRight(s, h, e) : h \in hs, e \in hs}
      \cup {remove(s, h) : h \in hs}
      \cup {rename(s, h, NewName) : h \in hs}
      \cup {setValueInt(s, h, 7) : h \in hs}
      \cup {setValueLong(s, h, 7) : h \in hs}
      \cup {setValueDouble(s, h, 5) : h \in hs}
      \cup {setValueBool(s, h, 0) : h \in hs}
      \cup {setValueObject(s, h, EncodeObj(ObjectValue)) : h \in hs}
      \cup {setValueArray(s, h, EncodeObj(ObjectValue)) : h \in hs}
      \cup {setValueBSONElement(s, h, b, 4) : h \in hs, b \in {EooObj, IntObj}}

\* The state t has the reps of s as they were, the damage events, the mode and
\* the failed dasserts of s, and the root writes the document it wrote in s.
NothingObservable(s, t) ==
    /\ Len(t.elements) >= Len(s.elements)
    /\ SubSeq(t.elements, 1, Len(s.elements)) = s.elements
    /\ t.damages = s.damages
    /\ t.inPlace = s.inPlace
    /\ t.flags = s.flags
    /\ writeTo(t).obj = writeTo(s).obj

FirstOffset(s, p) ==
    IF hasValue(s, p)
    THEN EltValueOffset(getObject(s, getElementRep(s, p).objIdx), getElementRep(s, p).offset) + 4
    ELSE 4

\* The offset of the element behind the element of i.
NextOffset(s, i) ==
    getElementRep(s, i).offset
      + EltSize(getObject(s, getElementRep(s, i).objIdx), getElementRep(s, i).offset)

\* The rep j of t stands for the bytes behind those of its left sibling, or for
\* the first bytes embedded in its parent.
FromBytes(t, j) ==
    /\ getElementRep(t, j).serialized
    /\ getElementRep(t, j).parent \in RealIdxs(t)
    /\ IF getElementRep(t, j).sibling.left = kInvalidRepIdx
       THEN /\ getElementRep(t, getElementRep(t, j).parent).child.left = j
            /\ getElementRep(t, j).objIdx = getElementRep(t, getElementRep(t, j).parent).objIdx
            /\ getElementRep(t, j).offset = FirstOffset(t, getElementRep(t, j).parent)
       ELSE /\ getElementRep(t, j).sibling.left \in RealIdxs(t)
            /\ getElementRep(t, getElementRep(t, j).sibling.left).sibling.right = j
            /\ getElementRep(t, getElementRep(t, j).sibling.left).parent = getElementRep(t, j).parent
            /\ getElementRep(t, j).objIdx = getElementRep(t, getElementRep(t, j).sibling.left).objIdx
            /\ getElementRep(t, j).offset = NextOffset(t, getElementRep(t, j).sibling.left)

\* The slots of the rep i that t has resolved are what the bytes determine: a
\* rep made from the bytes or, where the bytes end, kInvalidRepIdx; the right
\* child is the last of the chain of children.
ResolvedFromBytes(s, t, i) ==
    /\ getElementRep(t, i).sibling.right # getElementRep(s, i).sibling.right
          => IF getElementRep(t, i).sibling.right = kInvalidRepIdx
             THEN EltEoo(getObject(s, getElementRep(s, i).objIdx), NextOffset(s, i))
             ELSE /\ getElementRep(t, i).sibling.right >= Len(s.elements)
                  /\ getElementRep(t, getElementRep(t, i).sibling.right).sibling.left = i
    /\ getElementRep(t, i).child.left # getElementRep(s, i).child.left
          => IF getElementRep(t, i).child.left = kInvalidRepIdx
             THEN EltEoo(getObject(s, getElementRep(s, i).objIdx), FirstOffset(s, i))
             ELSE /\ getElementRep(t, i).child.left >= Len(s.elements)
                  /\ getElementRep(t, getElementRep(t, i).child.left).parent = i
                  /\ getElementRep(t, getElementRep(t, i).child.left).sibling.left = kInvalidRepIdx
    /\ getElementRep(t, i).child.right # getElementRep(s, i).child.right
          => IF getElementRep(t, i).child.right = kInvalidRepIdx
             THEN getElementRep(t, i).child.left = kInvalidRepIdx
             ELSE /\ ChildChain(t, i) # <<>>
                  /\ ChildChain(t, i)[Len(ChildChain(t, i))] = getElementRep(t, i).child.right
                  /\ getElementRep(t, getElementRep(t, i).child.right).sibling.right
                        = kInvalidRepIdx

\* t is s with reps appended and opaque slots resolved, and nothing else: no
\* serialized bit, no slot that was not opaque, no place of a rep in its bytes or
\* among the names, neither the mode nor the events of the updates in place.
OnlyMaterialized(s, t) ==
    /\ Len(t.elements) >= Len(s.elements)
    /\ t.leafBuf = s.leafBuf
    /\ t.fieldNames = s.fieldNames
    /\ t.inPlace = s.inPlace
    /\ t.damages = s.damages
    /\ \A i \in RealIdxs(s) :
          /\ [getElementRep(t, i) EXCEPT !.sibling.right = getElementRep(s, i).sibling.right,
                                         !.child = getElementRep(s, i).child]
                = getElementRep(s, i)
          /\ getElementRep(t, i).sibling.right
                \in {getElementRep(s, i).sibling.right} \cup
                      (IF getElementRep(s, i).sibling.right = kOpaqueRepIdx
                       THEN {kInvalidRepIdx} \cup RealIdxs(t) ELSE {})
          /\ getElementRep(t, i).child.left
                \in {getElementRep(s, i).child.left} \cup
                      (IF getElementRep(s, i).child.left = kOpaqueRepIdx
                       THEN {kInvalidRepIdx} \cup RealIdxs(t) ELSE {})
          /\ getElementRep(t, i).child.right
                \in {getElementRep(s, i).child.right} \cup
                      (IF getElementRep(s, i).child.right = kOpaqueRepIdx
                       THEN {kInvalidRepIdx} \cup RealIdxs(t) ELSE {})
          /\ ResolvedFromBytes(s, t, i)
    /\ \A j \in RealIdxs(t) \ RealIdxs(s) : FromBytes(t, j)

\* The reps that writeTo appends are children of the root or of an element that
\* has no value, never of an element that is appended as its bytes.
WritesOutsideValues(s, t) ==
    \A j \in RealIdxs(t) \ RealIdxs(s) :
        /\ getElementRep(t, j).parent \in RealIdxs(s)
        /\ \/ getElementRep(t, j).parent = kRootRepIdx
           \/ ~getElementRep(s, getElementRep(t, j).parent).serialized

\* C35. Navigation and emission only materialize: leftChild, hasChildren,
\* rightChild, rightSibling, leftSibling, compareWithElement, writeTo and
\* writeArrayTo append reps and replace opaque slots by what the bytes determine,
\* and change no serialized bit, no slot that was not opaque, neither the mode nor
\* the events of the updates in place nor the document the root writes; a
\* navigation call repeated returns the same index and appends nothing; writeTo
\* makes reps only for children of the root and of elements without a value.
NavigationOnlyMaterializes ==
    /\ \A h \in Handles :
          /\ OnlyMaterialized(St, resolveLeftChild(St, h))
          /\ resolveLeftChild(resolveLeftChild(St, h), h) = resolveLeftChild(St, h)
          /\ OnlyMaterialized(St, resolveRightSibling(St, h))
          /\ resolveRightSibling(resolveRightSibling(St, h), h) = resolveRightSibling(St, h)
          /\ OnlyMaterialized(St, resolveRightChild(St, h).st)
          /\ resolveRightChild(resolveRightChild(St, h).st, h) = resolveRightChild(St, h)
          /\ leftSibling(St, h).st.elements = elements
          /\ writeTo(resolveRightChild(St, h).st).obj = writeTo(St).obj
          /\ writeTo(resolveRightSibling(St, h)).obj = writeTo(St).obj
    /\ \A h \in ArraysOf(St) : OnlyMaterialized(St, writeArrayTo(St, h).st)
    /\ \A h \in Handles, e \in Handles, considerFieldName \in BOOLEAN :
          OnlyMaterialized(St, compareWithElement(St, h, e, considerFieldName,
                                                  WriteFuel(St)).st)
    /\ OnlyMaterialized(St, writeTo(St).st)
    /\ WritesOutsideValues(St, writeTo(St).st)
    /\ writeTo(writeTo(St).st).obj = writeTo(St).obj

(***************************************************************************)
(* Document::makeElement(ConstElement) of a container.                     *)
(***************************************************************************)
\* The containers of s that makeElement writes to the end: their parent links end
\* and no verify fails on the way.
Copyable(s) ==
    {h \in HandlesOf(s) : /\ ~isLeaf(s, h)
                          /\ parentChainEnds(s, h, Len(s.elements))
                          /\ WrittenElt(s, h).st.flags = {}}

\* The elements of another document that are copied: c: {y: 2} and n: {y: 2}, the
\* second being the first written with the new field name.
OtherElements ==
    {Container(MadeName, BSONType.Object, ObjectValue),
     Container(NewName, BSONType.Object, ObjectValue)}

\* The bytes of the element that rep c of s points at.
CopyBytes(s, c) ==
    EltBytes(getObject(s, getElementRep(s, c).objIdx), getElementRep(s, c).offset)

\* Navigation from the copy c and writeElement of it yield what its bytes hold.
CopyAgrees(s, c) ==
    /\ getElementRep(s, c).serialized
    /\ walkElement(s, c) = CopyBytes(s, c)
    /\ WrittenElt(s, c).b.buf = CopyBytes(s, c)

\* pushBack of a new int onto the copy c leaves the children of the bytes of c
\* followed by the int.
CopyAppends(s, c) ==
    LET value == EltValue(CopyBytes(s, c), 0)
        pushed == pushBack(makeElementInt(s, NewName, 3), c, insertedId(s))
    IN /\ pushed.status = OK
       /\ ChildrenOf(pushed.st, c)
             = BuilderObj(SubSeq(value, 5, Len(value) - 1)
                            \o EncodeElt(Leaf(NewName, BSONType.NumberInt, 3)))

\* The copies of the containers of this document, with and without a new name.
SameDocumentCopies(s) ==
    {makeElement(s, h, withName, NewName) : h \in Copyable(s), withName \in BOOLEAN}

\* The copies of the elements of the other document.
OtherDocumentCopies(s) == {makeElementOther(s, EncodeElt(t)) : t \in OtherElements}

\* C36. A copy of a container made by makeElement, of this document or of another,
\* with or without a new field name, has under navigation the children its bytes
\* hold, is written as its bytes, and after a pushBack has its children followed
\* by the element pushed; a copy of an element of this document under its own
\* name compares equal to the element.
CopyKeepsChildren ==
    /\ \A s \in SameDocumentCopies(St) \cup OtherDocumentCopies(St) :
          /\ CopyAgrees(s, insertedId(s) - 1)
          /\ CopyAppends(s, insertedId(s) - 1)
    /\ \A h \in Copyable(St) :
          LET s == makeElement(St, h, FALSE, <<>>)
          IN compareWithElement(s, insertedId(s) - 1, h, TRUE, WriteFuel(s)).cmp = 0

(***************************************************************************)
(* compareWithElement of two containers.                                   *)
(***************************************************************************)
\* The state once h has been given a new last child and has lost it again: h is
\* without a value and its children are the ones it had.
touched(s, h) == remove(pushBack(makeElementInt(s, MadeName, 3), h, insertedId(s)).st,
                        insertedId(s)).st

\* The states in which none, one or both of a and b have been touched.
TouchedStates(s, a, b) == {s, touched(s, a), touched(s, b), touched(touched(s, a), b)}

\* s with every element under a and under b made.
resolvedUnder(s, a, b) ==
    walkChildren(walkChildren(s, a, {a}, WriteFuel(s)).st, b, {b}, WriteFuel(s)).st

\* What the walk over the children of a and b in step comes to: the first
\* comparison of two children that is not 0, or the shorter list first.
lockstep(s, a, b) ==
    LET as == ChildChain(s, a)
        bs == ChildChain(s, b)
        n == IF Len(as) < Len(bs) THEN Len(as) ELSE Len(bs)
        names == getType(s, a) # BSONType.Array /\ getType(s, b) # BSONType.Array
        c(i) == compareWithElement(s, as[i], bs[i], names, WriteFuel(s)).cmp
        differ == {i \in 1 .. n : c(i) # 0}
    IN IF differ # {} THEN c(CHOOSE i \in differ : \A j \in differ : i <= j)
       ELSE Sign(Len(as) - Len(bs))

\* The order of two containers without a value: the canonical types, the field
\* names if they are considered, the children.
containerOrder(s, a, b, considerFieldName) ==
    LET diffCanon == canonicalizeBSONType(getType(s, a)) - canonicalizeBSONType(getType(s, b))
        fnamesComp == StrCompare(getFieldName(s, a), getFieldName(s, b))
    IN IF diffCanon # 0 THEN diffCanon
       ELSE IF considerFieldName /\ fnamesComp # 0 THEN fnamesComp
       ELSE lockstep(resolvedUnder(s, a, b), a, b)

\* The comparisons of the containers of s: the order of two that are without a
\* value, and the sign for two that are touched or not.
ComparesByContent(s) ==
    \A a \in Copyable(s), b \in Copyable(s), considerFieldName \in BOOLEAN :
        /\ (a # b /\ ~hasValue(s, a) /\ ~hasValue(s, b))
              => compareWithElement(s, a, b, considerFieldName, WriteFuel(s)).cmp
                    = containerOrder(s, a, b, considerFieldName)
        /\ \A t \in TouchedStates(s, a, b) :
              Sign(compareWithElement(t, a, b, considerFieldName, WriteFuel(t)).cmp)
                 = Sign(compareWithElement(s, a, b, considerFieldName, WriteFuel(s)).cmp)

\* C37. Two different containers neither of which has its value are ordered by
\* canonical type, then by field name if names are considered, then by the first
\* pair of children in step that does not compare equal, a list that is a proper
\* prefix of the other being less, the names of the children considered unless the
\* containers are arrays; and the sign of the comparison of two containers is the
\* same whether they have their value or have been given a child and lost it
\* again.  The documents are those reached and those where a detached leaf has
\* been given the array value whose only field is named "y".
ContainerComparison == \A s \in CompareStates : ComparesByContent(s)

\* The same for the documents in which the bytes of every array name its elements
\* by their index.
ContainerComparisonCanonical ==
    \A s \in CompareStates : CanonicalArrays(s) => ComparesByContent(s)

(***************************************************************************)
(* The loops of writeChildren, resolveRightChild and deserialize.          *)
(***************************************************************************)
RECURSIVE rightSiblingsEnd(_, _, _)
\* The loop of resolveRightChild from 'current' on comes to an element without a
\* right sibling within 'fuel' elements.
rightSiblingsEnd(st, current, fuel) ==
    IF current = kInvalidRepIdx THEN TRUE
    ELSE IF fuel = 0 THEN FALSE
    ELSE LET next(s) == \/ getElementRep(s, current).sibling.right = kInvalidRepIdx
                        \/ rightSiblingsEnd(s, getElementRep(s, current).sibling.right,
                                            fuel - 1)
         IN next(resolveRightSibling(st, current))

resolveRightChildEnds(st, index) ==
    \/ getElementRep(st, index).child.right # kOpaqueRepIdx
    \/ LET from(s) == rightSiblingsEnd(s, getElementRep(s, index).child.left, WriteFuel(st))
       IN from(resolveLeftChild(st, index))

RECURSIVE deserializeEnds(_, _, _)
\* The loop of deserialize from 'index' on ends within 'fuel' reps.
deserializeEnds(st, index, fuel) ==
    IF index = kInvalidRepIdx THEN TRUE
    ELSE IF fuel = 0 THEN FALSE
    ELSE IF ~getElementRep(st, index).serialized THEN TRUE
    ELSE deserializeEnds([st EXCEPT !.elements[index + 1].serialized = FALSE],
                         getElementRep(st, index).parent, fuel - 1)

\* The links that lead to rep i from the reps of 'seen': as a first child or as a
\* right sibling.
LinksTo(s, seen, i) ==
    {<<"child", p>> : p \in {q \in seen : getElementRep(s, q).child.left = i}}
       \cup {<<"sibling", p>> : p \in {q \in seen : getElementRep(s, q).sibling.right = i}}

\* The reps that navigation reaches from the root are a finite tree: the walk ends
\* with fuel left, one link leads to each rep but the root, and none to the root.
FiniteTree(s) ==
    LET r == walkChildren(s, kRootRepIdx, {kRootRepIdx}, WriteFuel(s))
    IN /\ r.fuel > 0
       /\ LinksTo(r.st, r.seen, kRootRepIdx) = {}
       /\ \A i \in r.seen \ {kRootRepIdx} : Cardinality(LinksTo(r.st, r.seen, i)) = 1

\* The three loops end in s and the reps under its root are a finite tree.
Terminates(s) ==
    /\ "writeTo does not end" \notin writeTo(s).st.flags
    /\ FiniteTree(s)
    /\ \A h \in HandlesOf(s) : ~isLeaf(s, h) => resolveRightChildEnds(s, h)
    /\ \A h \in HandlesOf(s) :
          getElementRep(s, h).parent # kInvalidRepIdx
              => deserializeEnds(s, h, Len(s.elements) + 1)

\* The states one edit of the lists after the state reached: an attachable element
\* pushed or added as a sibling, an element removed.
OneMoreEdit ==
    {addChild(St, h, e, f).st : h \in Handles, e \in Attachable, f \in BOOLEAN}
      \cup {addSiblingLeft(St, h, e).st : h \in Handles, e \in Attachable}
      \cup {addSiblingRight(St, h, e).st : h \in Handles, e \in Attachable}
      \cup {remove(St, h).st : h \in Handles}

\* C38. In every state reached, and after one more push, addSibling or remove on
\* whatever elements,
\* writeTo of the root ends, resolveRightChild of every container ends,
\* deserialize from every element that has a parent ends, and the reps reached
\* from the root over the first child and right sibling links are a finite tree,
\* each reached once.
Termination == \A s \in {St} \cup OneMoreEdit : Terminates(s)

\* C38, the case: an element has been made a child of itself, so that its parent
\* links never end, the children of the root and of a container under the root
\* have been made, and the loops end.
TerminationWitness ==
    /\ \E i \in RepIdxs \ noHandle : ~parentChainEnds(St, i, Len(St.elements))
    /\ \E a \in RepIdxs \ {kRootRepIdx} :
          /\ getElementRep(St, a).parent = kRootRepIdx
          /\ getElementRep(St, a).child.left \in RepIdxs
    /\ Terminates(St)

(***************************************************************************)
(* The heap of field names.                                                *)
(***************************************************************************)
\* The names inserted: the empty name, the name of the elements made and the
\* name of the elements renamed.
HeapNames == {<<>>, MadeName, NewName}

\* The elements of s whose name is in the heap: those without an object, the
\* root aside.
HeapNamed(s) ==
    {h \in HandlesOf(s) \ {kRootRepIdx} :
        /\ ~getElementRep(s, h).serialized
        /\ getElementRep(s, h).objIdx = kInvalidObjIdx}

\* insertFieldName(name) in s: the id returned is the size of the heap before,
\* the heap grows by the name and its end, getFieldName of the id yields the name,
\* at once and after any further insertFieldName, and the names of the elements
\* are what they were.
InsertsName(s, name) ==
    LET t == insertFieldName(s, name)
        id == insertedFieldNameId(s)
    IN /\ id = Len(s.fieldNames)
       /\ Len(t.fieldNames) = Len(s.fieldNames) + Len(name) + 1
       /\ SubSeq(t.fieldNames, 1, Len(s.fieldNames)) = s.fieldNames
       /\ heapFieldName(t, id) = name
       /\ \A later \in HeapNames : heapFieldName(insertFieldName(t, later), id) = name
       /\ \A h \in HandlesOf(s) : getFieldName(t, h) = getFieldName(s, h)

\* C39. The name at offset 0 of the heap of field names is the empty name and
\* the offset of the root is 0; insertFieldName of a name, the empty name too,
\* appends the name and its end to the heap and returns the offset the name starts
\* at, the size of the heap before; getFieldName of an offset returned yields the
\* name inserted, whatever has been inserted since: every element whose name is in
\* the heap has the name it was made with or renamed to.
NameHeap ==
    /\ heapFieldName(St, 0) = <<>>
    /\ getElementRep(St, kRootRepIdx).offset = 0
    /\ getFieldName(St, kRootRepIdx) = <<>>
    /\ \A name \in HeapNames : InsertsName(St, name)
    /\ \A h \in HeapNamed(St) \ noHandle :
          href[h + 1] # NoNode
              => heapFieldName(St, getElementRep(St, h).offset) = ref[href[h + 1]].name

\* C39 as stated: in addition, insertFieldName of the empty name returns 0 and
\* leaves the heap as it is.
NameHeapEmptyNameAtZero ==
    /\ NameHeap
    /\ insertedFieldNameId(St) = 0
    /\ insertFieldName(St, <<>>).fieldNames = St.fieldNames

\* C39, the case: two elements have their names in the heap, one inserted after
\* the other, and both names are read back.
NameHeapWitness ==
    \E h \in HeapNamed(St) \ noHandle, e \in HeapNamed(St) \ noHandle :
        /\ 0 < getElementRep(St, h).offset
        /\ getElementRep(St, h).offset < getElementRep(St, e).offset
        /\ heapFieldName(St, getElementRep(St, h).offset) \in {MadeName, NewName}
        /\ heapFieldName(St, getElementRep(St, e).offset) \in {MadeName, NewName}
====
